---- MODULE Spec2Model ----
(***************************************************************************)
(* Model of the Gaudi custom-modeling layer of text-generation-inference:  *)
(* construction of DeepseekV3Config / DeepseekV3MLP / DeepseekV3MoE, and   *)
(* construction and forward of the three attention modules                 *)
(* (DeepseekV3Attention, FlashNeoxAttention, Starcoder2Attention).         *)
(*                                                                         *)
(* Tensors are modelled by their shapes (last-dimension widths, head       *)
(* counts) and by the order of the calls made on the external              *)
(* collaborators (kv_cache.store, attention, paged_attention, ...).        *)
(***************************************************************************)
EXTENDS Integers, Sequences, FiniteSets, TLC

\* ------------------------------------------------------------------ bounds
MaxHeads == 3        \* config.num_attention_heads, num_key_value_heads in 1..MaxHeads
MaxWorld == 2        \* weights.process_group.size() in 1..MaxWorld
MaxDim   == 2        \* head dimensions in 1..MaxDim
MaxEp    == 2        \* ep_size in 0..MaxEp
MaxSlot  == 2        \* cache slots 0..MaxSlot-1

Slots == 0 .. (MaxSlot - 1)
Acts == {"silu", "gelu", "relu"}
\* rotary mscale in tenths, as returned by get_mscale (1.0 when scaling is off)
Mscales == {10, 12}
\* q_lora_rank: 0 stands for None (no low-rank query path)
QLoraRanks == {0, 1}

Max(a, b) == IF a >= b THEN a ELSE b

VARIABLES
    config,    \* result of the last DeepseekV3Config(...) call
    mlp,       \* result of the last DeepseekV3MLP(...) call
    moe,       \* result of the last DeepseekV3MoE(...) call
    attn,      \* the attention module under construction / in use
    kv_cache,  \* paged cache of the attention layer: slot -> entry
    call,      \* the last attention forward call and its trace
    eq,        \* single-token DeepSeek attention: inputs and both outputs
    ff,        \* the last feed-forward / layer forward call and its trace
    fwd,       \* one model forward pass, layer by layer
    dk,        \* docker_launcher: docker daemon and launcher position
    hl,        \* LauncherHandle.health: position in the retry loop
    gate,      \* the router gate built by the last DeepseekV3MoE(...)
    rope,      \* rotary reordering of the last DeepSeek attention forward
    env,       \* module-level and caller-owned launch configuration
    head       \* construction of FlashStarcoder2ForCausalLM's output head

vars == <<config, mlp, moe, attn, kv_cache, call, eq, ff, fwd, dk, hl,
          gate, rope, env, head>>

\* value of a part of the state that the specification at hand leaves alone
Idle == [pc |-> "idle"]

\* =====================================================================
\* DeepseekV3Config.__init__
\* =====================================================================
NoConfig ==
    [status |-> "none", error |-> "none", arg_tie |-> FALSE,
     tie_word_embeddings |-> FALSE, ep_size |-> 1, hidden_act |-> "silu",
     n_shared_experts |-> 0]

\* The keyword tie_word_embeddings is a named parameter of __init__, so a
\* caller's value is bound to that parameter and is never a member of
\* **kwargs; kwargs.pop("tie_word_embeddings", False) therefore yields its
\* default.
KwargsPopTie(arg_tie) == FALSE

\* variant: only ep_size above 1 is rejected
DeepseekV3Config_init_epAbove(arg_tie, ep_size, hidden_act, n_shared_experts) ==
    LET tie == KwargsPopTie(arg_tie)
        base == [NoConfig EXCEPT !.arg_tie = arg_tie,
                                 !.ep_size = ep_size,
                                 !.hidden_act = hidden_act,
                                 !.n_shared_experts = n_shared_experts]
    IN  IF tie
        THEN [base EXCEPT !.status = "error", !.error = "ValueError"]
        ELSE IF ep_size > 1
        THEN [base EXCEPT !.status = "error", !.error = "ValueError"]
        ELSE [base EXCEPT !.status = "ok", !.tie_word_embeddings = tie]

DeepseekV3Config_init(arg_tie, ep_size, hidden_act, n_shared_experts) ==
    LET tie == KwargsPopTie(arg_tie)
        base == [NoConfig EXCEPT !.arg_tie = arg_tie,
                                 !.ep_size = ep_size,
                                 !.hidden_act = hidden_act,
                                 !.n_shared_experts = n_shared_experts]
    IN  IF tie
        THEN [base EXCEPT !.status = "error", !.error = "ValueError"]
        ELSE IF ep_size # 1
        THEN [base EXCEPT !.status = "error", !.error = "ValueError"]
        ELSE [base EXCEPT !.status = "ok", !.tie_word_embeddings = tie]

\* =====================================================================
\* DeepseekV3MLP.__init__ / DeepseekV3MoE.__init__
\* A result records the exception (if any), the activation bound to
\* self.act and the weights loaded, in load order.
\* =====================================================================
NoModule ==
    [status |-> "none", error |-> "none", act |-> "none", loads |-> <<>>,
     shared_experts |-> "none", hidden_act |-> "none"]

\* variant: an unsupported activation is looked up in ACT2FN instead of
\* being rejected
DeepseekV3MLP_init_anyAct(prefix, hidden_act) ==
    [NoModule EXCEPT !.status = "ok", !.act = hidden_act,
                     !.hidden_act = hidden_act,
                     !.loads = << <<prefix, "gate_up_proj">>,
                                  <<prefix, "down_proj">> >>]

DeepseekV3MLP_init(prefix, hidden_act) ==
    IF hidden_act # "silu"
    THEN [NoModule EXCEPT !.status = "error", !.error = "NotImplementedError",
                          !.hidden_act = hidden_act]
    ELSE [NoModule EXCEPT !.status = "ok", !.act = hidden_act,
                          !.hidden_act = hidden_act,
                          !.loads = << <<prefix, "gate_up_proj">>,
                                       <<prefix, "down_proj">> >>]

\* n_shared_experts = 0 stands for None
DeepseekV3MoE_init(hidden_act, n_shared_experts) ==
    LET own == << <<"mlp", "gate">>, <<"mlp", "experts">> >>
        shared == DeepseekV3MLP_init("mlp.shared_experts", hidden_act)
    IN  IF n_shared_experts # 0
        THEN IF shared.status = "error"
             THEN [NoModule EXCEPT !.status = "error", !.error = shared.error,
                                   !.hidden_act = hidden_act,
                                   !.shared_experts = "raised",
                                   !.loads = own \o shared.loads]
             ELSE [NoModule EXCEPT !.status = "ok", !.act = shared.act,
                                   !.hidden_act = hidden_act,
                                   !.shared_experts = "mlp",
                                   !.loads = own \o shared.loads]
        ELSE [NoModule EXCEPT !.status = "ok", !.hidden_act = hidden_act,
                              !.shared_experts = "None", !.loads = own]

\* =====================================================================
\* Attention modules: construction
\* =====================================================================
\* softmax_scale = head_size ** -0.5 * factor, the factor kept in
\* hundredths (mscale is in tenths, so mscale * mscale is in hundredths).
SoftmaxScale(head_size, factor100) ==
    [head_size |-> head_size, factor100 |-> factor100]

NoScale == SoftmaxScale(0, 0)

\* torch.arange(0, n).repeat_interleave(groups)
RepeatInterleave(n, groups) ==
    [i \in 1 .. (n * groups) |-> (i - 1) \div groups]

NoAttn ==
    [kind |-> "none", status |-> "none", error |-> "none",
     cfg_num_attention_heads |-> 0, cfg_num_key_value_heads |-> 0,
     world |-> 0,
     num_heads |-> 0, num_key_value_heads |-> 0, num_groups |-> 0,
     kv_head_mapping |-> <<>>,
     head_size |-> 0, value_head_size |-> 0, head_pad_size |-> 0,
     kv_lora_rank |-> 0, q_lora_rank |-> 0,
     qk_nope_head_dim |-> 0, qk_rope_head_dim |-> 0,
     rotary_dim |-> 0, mscale |-> 0,
     softmax_scale |-> NoScale]

AttnRaise(kind, err, heads, kv_heads, world) ==
    [NoAttn EXCEPT !.kind = kind, !.status = "error", !.error = err,
                   !.cfg_num_attention_heads = heads,
                   !.cfg_num_key_value_heads = kv_heads,
                   !.world = world]

\* variant: the head-count check is missing
HeadsDivisible_unchecked(num_heads, world) == TRUE

\* the head-count check shared by the three constructors
HeadsDivisible(num_heads, world) == num_heads % world = 0

\* variant: the pad size ignores the value head width
HeadPadSize_headOnly(head_size, value_head_size) == head_size

\* variant: the pad size is the value head width
HeadPadSize_valueOnly(head_size, value_head_size) == value_head_size

\* self.head_pad_size = max(self.head_size, self.value_head_size)
HeadPadSize(head_size, value_head_size) == Max(head_size, value_head_size)

\* DeepseekV3Attention.__init__
\* cfg: [num_attention_heads, num_key_value_heads, kv_lora_rank, q_lora_rank,
\*       qk_nope_head_dim, qk_rope_head_dim, v_head_dim]
DeepseekV3Attention_init(cfg, world, mscale) ==
    LET head_size == cfg.qk_nope_head_dim + cfg.qk_rope_head_dim
        value_head_size == cfg.v_head_dim
        head_pad_size == HeadPadSize(head_size, value_head_size)
        softmax_scale == SoftmaxScale(head_size, mscale * mscale)
        num_heads == cfg.num_attention_heads \div world
        num_key_value_heads == cfg.num_key_value_heads \div world
    IN  IF ~HeadsDivisible(cfg.num_attention_heads, world)
        THEN AttnRaise("deepseek_v3", "ValueError", cfg.num_attention_heads,
                       cfg.num_key_value_heads, world)
        ELSE IF num_key_value_heads = 0
        THEN AttnRaise("deepseek_v3", "ZeroDivisionError",
                       cfg.num_attention_heads, cfg.num_key_value_heads, world)
        ELSE [NoAttn EXCEPT
                !.kind = "deepseek_v3", !.status = "ready",
                !.cfg_num_attention_heads = cfg.num_attention_heads,
                !.cfg_num_key_value_heads = cfg.num_key_value_heads,
                !.world = world,
                !.num_heads = num_heads,
                !.num_key_value_heads = num_key_value_heads,
                !.num_groups = num_heads \div num_key_value_heads,
                !.kv_head_mapping =
                    RepeatInterleave(num_key_value_heads,
                                     num_heads \div num_key_value_heads),
                !.head_size = head_size,
                !.value_head_size = value_head_size,
                !.head_pad_size = head_pad_size,
                !.kv_lora_rank = cfg.kv_lora_rank,
                !.q_lora_rank = cfg.q_lora_rank,
                !.qk_nope_head_dim = cfg.qk_nope_head_dim,
                !.qk_rope_head_dim = cfg.qk_rope_head_dim,
                !.mscale = mscale,
                !.softmax_scale = softmax_scale]

\* FlashNeoxAttention.__init__
\* cfg: [num_attention_heads, hidden_size, rotary_pct (percent)]
FlashNeoxAttention_init(cfg, world) ==
    LET head_size == cfg.hidden_size \div cfg.num_attention_heads
        rotary_dim == (cfg.rotary_pct * head_size) \div 100
        num_heads == cfg.num_attention_heads \div world
    IN  IF ~HeadsDivisible(cfg.num_attention_heads, world)
        THEN AttnRaise("neox", "ValueError", cfg.num_attention_heads,
                       cfg.num_attention_heads, world)
        ELSE [NoAttn EXCEPT
                !.kind = "neox", !.status = "ready",
                !.cfg_num_attention_heads = cfg.num_attention_heads,
                !.cfg_num_key_value_heads = cfg.num_attention_heads,
                !.world = world,
                !.num_heads = num_heads,
                !.num_key_value_heads = num_heads,
                !.num_groups = 1,
                !.kv_head_mapping = RepeatInterleave(num_heads, 1),
                !.head_size = head_size,
                !.value_head_size = head_size,
                !.head_pad_size = head_size,
                !.rotary_dim = rotary_dim,
                !.softmax_scale = SoftmaxScale(head_size, 100)]

\* Starcoder2Attention.__init__
\* cfg: [num_attention_heads, num_key_value_heads, hidden_size]
Starcoder2Attention_init(cfg, world) ==
    LET head_size == cfg.hidden_size \div cfg.num_attention_heads
        num_heads == cfg.num_attention_heads \div world
        num_key_value_heads == cfg.num_key_value_heads \div world
    IN  IF ~HeadsDivisible(cfg.num_attention_heads, world)
        THEN AttnRaise("starcoder2", "ValueError", cfg.num_attention_heads,
                       cfg.num_key_value_heads, world)
        ELSE IF num_key_value_heads = 0
        THEN AttnRaise("starcoder2", "ZeroDivisionError",
                       cfg.num_attention_heads, cfg.num_key_value_heads, world)
        ELSE [NoAttn EXCEPT
                !.kind = "starcoder2", !.status = "ready",
                !.cfg_num_attention_heads = cfg.num_attention_heads,
                !.cfg_num_key_value_heads = cfg.num_key_value_heads,
                !.world = world,
                !.num_heads = num_heads,
                !.num_key_value_heads = num_key_value_heads,
                !.num_groups = num_heads \div num_key_value_heads,
                !.kv_head_mapping =
                    RepeatInterleave(num_key_value_heads,
                                     num_heads \div num_key_value_heads),
                !.head_size = head_size,
                !.value_head_size = head_size,
                !.head_pad_size = head_size,
                !.rotary_dim = head_size,
                !.softmax_scale = SoftmaxScale(head_size, 100)]

\* =====================================================================
\* External collaborators: KVCache.store and the attention kernels
\* =====================================================================
EmptyEntry == [written |-> FALSE, key_width |-> 0, has_value |-> FALSE,
               value_width |-> 0]

EmptyCache == [s \in Slots |-> EmptyEntry]

\* one call made by a forward pass on an external collaborator
NoEvent ==
    [op |-> "none", slots |-> {}, query_width |-> 0, key_width |-> 0,
     has_value |-> FALSE, value_width |-> 0, softmax_scale |-> NoScale,
     kv_source |-> "none", reads |-> {}, pads |-> <<0, 0, 0>>]

\* kv_cache.store(key, value, slots, kv_scales): the entry of every slot in
\* `slots` is overwritten, the others are untouched
KVCacheStore(cache, key_width, has_value, value_width, slots) ==
    [s \in Slots |->
        IF s \in slots
        THEN [written |-> TRUE, key_width |-> key_width,
              has_value |-> has_value, value_width |-> value_width]
        ELSE cache[s]]

StoreEvent(key_width, has_value, value_width, slots) ==
    [NoEvent EXCEPT !.op = "kv_cache.store", !.slots = slots,
                    !.key_width = key_width, !.has_value = has_value,
                    !.value_width = value_width]

\* attention(query, key, value, kv_cache, kv_scales, seqlen, softmax_scale):
\* the dense kernel attends over the key/value tensors it is handed
DenseAttention(query_width, key_width, value_width, softmax_scale, pads) ==
    [NoEvent EXCEPT !.op = "attention", !.query_width = query_width,
                    !.key_width = key_width, !.has_value = TRUE,
                    !.value_width = value_width,
                    !.softmax_scale = softmax_scale,
                    !.kv_source = "tensors", !.pads = pads]

\* paged_attention / paged_attention_mla(query, kv_cache, kv_head_mapping,
\* softmax_scale, seqlen, ...): the kernel is handed no key or value; it
\* attends over the cache entries of the blocks of the batch's sequences
PagedAttention(op, query_width, cache, blocks, softmax_scale) ==
    [NoEvent EXCEPT !.op = op, !.query_width = query_width,
                    !.softmax_scale = softmax_scale,
                    !.kv_source = "cache",
                    !.reads = {s \in blocks : cache[s].written}]

OutputEvent(op, width) ==
    [NoEvent EXCEPT !.op = op, !.query_width = width]

\* torch.nn.functional.pad(x, (0, p)): a negative p crops
Pad(width, p) == width + p

\* x[..., :n]
Truncate(width, n) == IF n < width THEN n ELSE width

\* =====================================================================
\* Attention modules: forward
\* A forward pass yields the calls it makes on the collaborators, in
\* order, the cache after the pass and the width of the returned rows.
\*   prefill : cu_seqlen_prefill is not None
\*   slots   : the slots argument (one slot per token of the batch)
\*   blocks  : the cache positions that seqlen / hpu_attention_meta give
\*             the paged kernel for the batch's sequences
\* =====================================================================
RotaryEvent(query_width, key_width) ==
    [NoEvent EXCEPT !.op = "rotary_emb", !.query_width = query_width,
                    !.key_width = key_width]

\* variant: the full per-head key is cached
DeepseekV3LatentWidth_fullKey(self) == self.head_size

\* latent_vec_k = concat(kv_c_normed, key_pe) viewed as
\* (-1, qk_rope_head_dim + kv_lora_rank)
DeepseekV3LatentWidth(self) ==
    LET kv_c_normed == self.kv_lora_rank
        key_pe == self.qk_rope_head_dim
    IN  kv_c_normed + key_pe

\* the prefill branch of DeepseekV3Attention.forward: rebuild key/value
\* through kv_b_proj, pad the three tensors, call the dense kernel
DeepseekV3Prefill(self) ==
    LET query == self.head_size
        key == query                       \* torch.empty_like(query)
        value == self.value_head_size
        pq == self.head_pad_size - self.head_size
        pv == self.head_pad_size - self.value_head_size
    IN  DenseAttention(Pad(query, pq), Pad(key, pq), Pad(value, pv),
                       self.softmax_scale, <<pq, pq, pv>>)

\* variant: decode uses the plain head_size ** -0.5 scale
DeepseekV3Decode_plainScale(self, cache, blocks) ==
    LET ql_nope == self.kv_lora_rank
        query_pe == self.qk_rope_head_dim
    IN  PagedAttention("paged_attention_mla", ql_nope + query_pe, cache,
                       blocks, SoftmaxScale(self.head_size, 100))

\* the decode branch: query = cat(ql_nope, q_pe), paged MLA kernel
DeepseekV3Decode(self, cache, blocks) ==
    LET ql_nope == self.kv_lora_rank       \* bmm(q_nope, W_UK_T)
        query_pe == self.qk_rope_head_dim
    IN  PagedAttention("paged_attention_mla", ql_nope + query_pe, cache,
                       blocks, self.softmax_scale)

DeepseekV3Attention_forward(self, prefill, slots, blocks, cache) ==
    LET rot == RotaryEvent(self.qk_rope_head_dim, self.qk_rope_head_dim)
        latent_vec_k == DeepseekV3LatentWidth(self)
        store == StoreEvent(latent_vec_k, FALSE, 0, slots)
        cache2 == KVCacheStore(cache, latent_vec_k, FALSE, 0, slots)
        kern == IF prefill THEN DeepseekV3Prefill(self)
                ELSE DeepseekV3Decode(self, cache2, blocks)
        attn_output == IF prefill
                       THEN Truncate(kern.value_width, self.value_head_size)
                       ELSE self.value_head_size   \* bmm(x, W_UV)
        out == OutputEvent("o_proj", self.num_heads * attn_output)
    IN  [trace |-> <<rot, store, kern, out>>, cache |-> cache2,
         out_width |-> out.query_width]

\* variant: the cache is written after the kernel has run
FlashNeoxAttention_forward_lateStore(self, prefill, slots, blocks, cache) ==
    LET query_rot == self.rotary_dim
        query_pass == self.head_size - self.rotary_dim
        width == query_rot + query_pass
        rot == RotaryEvent(query_rot, query_rot)
        store == StoreEvent(width, TRUE, self.head_size, slots)
        cache2 == KVCacheStore(cache, width, TRUE, self.head_size, slots)
        kern == IF prefill
                THEN DenseAttention(width, width, self.head_size,
                                    self.softmax_scale, <<0, 0, 0>>)
                ELSE PagedAttention("paged_attention", width, cache, blocks,
                                    self.softmax_scale)
        out == OutputEvent("dense", self.num_heads * self.head_size)
    IN  [trace |-> <<rot, kern, store, out>>, cache |-> cache2,
         out_width |-> out.query_width]

FlashNeoxAttention_forward(self, prefill, slots, blocks, cache) ==
    LET query_rot == self.rotary_dim
        query_pass == self.head_size - self.rotary_dim
        width == query_rot + query_pass    \* qkv[:, 0], qkv[:, 1]
        rot == RotaryEvent(query_rot, query_rot)
        store == StoreEvent(width, TRUE, self.head_size, slots)
        cache2 == KVCacheStore(cache, width, TRUE, self.head_size, slots)
        kern == IF prefill
                THEN DenseAttention(width, width, self.head_size,
                                    self.softmax_scale, <<0, 0, 0>>)
                ELSE PagedAttention("paged_attention", width, cache2, blocks,
                                    self.softmax_scale)
        out == OutputEvent("dense", self.num_heads * self.head_size)
    IN  [trace |-> <<rot, store, kern, out>>, cache |-> cache2,
         out_width |-> out.query_width]

\* variant: the dense kernel also runs on decode, before the paged one
Starcoder2Attention_forward_bothKernels(self, prefill, slots, blocks, cache) ==
    LET width == self.head_size
        rot == RotaryEvent(width, width)
        store == StoreEvent(width, TRUE, width, slots)
        cache2 == KVCacheStore(cache, width, TRUE, width, slots)
        dense == DenseAttention(width, width, width,
                                self.softmax_scale, <<0, 0, 0>>)
        paged == PagedAttention("paged_attention", width, cache2, blocks,
                                self.softmax_scale)
        out == OutputEvent("o_proj", self.num_heads * self.head_size)
    IN  [trace |-> IF prefill THEN <<rot, store, dense, out>>
                   ELSE <<rot, store, dense, paged, out>>,
         cache |-> cache2, out_width |-> out.query_width]

\* variant: the prefill branch also goes through the paged kernel
Starcoder2Attention_forward_pagedPrefill(self, prefill, slots, blocks, cache) ==
    LET width == self.head_size
        rot == RotaryEvent(width, width)
        store == StoreEvent(width, TRUE, width, slots)
        cache2 == KVCacheStore(cache, width, TRUE, width, slots)
        kern == PagedAttention("paged_attention", width, cache2, blocks,
                               self.softmax_scale)
        out == OutputEvent("o_proj", self.num_heads * self.head_size)
    IN  [trace |-> <<rot, store, kern, out>>, cache |-> cache2,
         out_width |-> out.query_width]

Starcoder2Attention_forward(self, prefill, slots, blocks, cache) ==
    LET width == self.head_size
        rot == RotaryEvent(width, width)
        store == StoreEvent(width, TRUE, width, slots)
        cache2 == KVCacheStore(cache, width, TRUE, width, slots)
        kern == IF prefill
                THEN DenseAttention(width, width, width,
                                    self.softmax_scale, <<0, 0, 0>>)
                ELSE PagedAttention("paged_attention", width, cache2, blocks,
                                    self.softmax_scale)
        out == OutputEvent("o_proj", self.num_heads * self.head_size)
    IN  [trace |-> <<rot, store, kern, out>>, cache |-> cache2,
         out_width |-> out.query_width]

\* =====================================================================
\* State machine
\* =====================================================================
NoCall == [kind |-> "none", prefill |-> FALSE, slots |-> {}, blocks |-> {},
           trace |-> <<>>, out_width |-> 0]

Init ==
    /\ config = NoConfig
    /\ mlp = NoModule
    /\ moe = NoModule
    /\ attn = NoAttn
    /\ kv_cache = EmptyCache
    /\ call = NoCall
    /\ eq = Idle /\ ff = Idle /\ fwd = Idle /\ dk = Idle /\ hl = Idle
    /\ gate = Idle /\ rope = Idle /\ env = Idle /\ head = Idle

\* ---- construction of the DeepSeek-V3 config and feed-forward modules
NewDeepseekV3Config ==
    /\ \E arg_tie \in BOOLEAN, ep_size \in 0 .. MaxEp, hidden_act \in Acts,
          n_shared_experts \in 0 .. 2 :
          config' = DeepseekV3Config_init(arg_tie, ep_size, hidden_act,
                                          n_shared_experts)
    /\ UNCHANGED <<gate, rope, env, head, eq, ff, fwd, dk, hl, mlp, moe, attn, kv_cache, call>>

NewDeepseekV3MLP ==
    /\ config.status = "ok"
    /\ mlp' = DeepseekV3MLP_init("mlp", config.hidden_act)
    /\ UNCHANGED <<gate, rope, env, head, eq, ff, fwd, dk, hl, config, moe, attn, kv_cache, call>>

NewDeepseekV3MoE ==
    /\ config.status = "ok"
    /\ moe' = DeepseekV3MoE_init(config.hidden_act, config.n_shared_experts)
    /\ UNCHANGED <<gate, rope, env, head, eq, ff, fwd, dk, hl, config, mlp, attn, kv_cache, call>>

\* ---- construction of an attention module
DeepseekCfgs ==
    [num_attention_heads : 1 .. MaxHeads, num_key_value_heads : 1 .. MaxHeads,
     kv_lora_rank : 1 .. MaxDim, q_lora_rank : QLoraRanks,
     qk_nope_head_dim : 1 .. MaxDim, qk_rope_head_dim : {2},
     v_head_dim : 1 .. (2 * MaxDim)]

NewDeepseekV3Attention ==
    /\ attn.status = "none"
    /\ \E cfg \in DeepseekCfgs, world \in 1 .. MaxWorld, mscale \in Mscales :
          attn' = DeepseekV3Attention_init(cfg, world, mscale)
    /\ UNCHANGED <<gate, rope, env, head, eq, ff, fwd, dk, hl, config, mlp, moe, kv_cache, call>>

NewFlashNeoxAttention ==
    /\ attn.status = "none"
    /\ \E heads \in 1 .. MaxHeads, head_dim \in 1 .. (2 * MaxDim),
          rotary_pct \in {25, 100}, world \in 1 .. MaxWorld :
          attn' = FlashNeoxAttention_init(
                      [num_attention_heads |-> heads,
                       hidden_size |-> heads * head_dim,
                       rotary_pct |-> rotary_pct], world)
    /\ UNCHANGED <<gate, rope, env, head, eq, ff, fwd, dk, hl, config, mlp, moe, kv_cache, call>>

NewStarcoder2Attention ==
    /\ attn.status = "none"
    /\ \E heads \in 1 .. MaxHeads, kv_heads \in 1 .. MaxHeads,
          head_dim \in 1 .. (2 * MaxDim), world \in 1 .. MaxWorld :
          attn' = Starcoder2Attention_init(
                      [num_attention_heads |-> heads,
                       num_key_value_heads |-> kv_heads,
                       hidden_size |-> heads * head_dim], world)
    /\ UNCHANGED <<gate, rope, env, head, eq, ff, fwd, dk, hl, config, mlp, moe, kv_cache, call>>

\* ---- one attention forward call
Written(cache) == {s \in Slots : cache[s].written}

ForwardInputs(prefill, slots, prior) ==
    /\ slots # {}
    /\ prior \subseteq Written(kv_cache) \ slots
    /\ prefill => prior = {}

Forward(kind, res, prefill, slots, prior) ==
    /\ kv_cache' = res.cache
    /\ call' = [kind |-> kind, prefill |-> prefill, slots |-> slots,
                blocks |-> slots \cup prior, trace |-> res.trace,
                out_width |-> res.out_width]
    /\ UNCHANGED <<gate, rope, env, head, eq, ff, fwd, dk, hl, config, mlp, moe, attn>>

ForwardDeepseekV3 ==
    /\ attn.status = "ready" /\ attn.kind = "deepseek_v3"
    /\ \E prefill \in BOOLEAN, slots \in SUBSET Slots, prior \in SUBSET Slots :
          /\ ForwardInputs(prefill, slots, prior)
          /\ Forward("deepseek_v3",
                     DeepseekV3Attention_forward(attn, prefill, slots,
                                                 slots \cup prior, kv_cache),
                     prefill, slots, prior)

ForwardNeox ==
    /\ attn.status = "ready" /\ attn.kind = "neox"
    /\ \E prefill \in BOOLEAN, slots \in SUBSET Slots, prior \in SUBSET Slots :
          /\ ForwardInputs(prefill, slots, prior)
          /\ Forward("neox",
                     FlashNeoxAttention_forward(attn, prefill, slots,
                                                slots \cup prior, kv_cache),
                     prefill, slots, prior)

ForwardStarcoder2 ==
    /\ attn.status = "ready" /\ attn.kind = "starcoder2"
    /\ \E prefill \in BOOLEAN, slots \in SUBSET Slots, prior \in SUBSET Slots :
          /\ ForwardInputs(prefill, slots, prior)
          /\ Forward("starcoder2",
                     Starcoder2Attention_forward(attn, prefill, slots,
                                                 slots \cup prior, kv_cache),
                     prefill, slots, prior)

\* the attention modules and their cache
Next ==
    \/ NewDeepseekV3Attention
    \/ NewFlashNeoxAttention
    \/ NewStarcoder2Attention
    \/ ForwardDeepseekV3
    \/ ForwardNeox
    \/ ForwardStarcoder2

Spec == Init /\ [][Next]_vars

\* configuration and feed-forward construction
NextConstruct ==
    \/ NewDeepseekV3Config
    \/ NewDeepseekV3MLP
    \/ NewDeepseekV3MoE

SpecConstruct == Init /\ [][NextConstruct]_vars

\* =====================================================================
\* Properties
\* =====================================================================
Called == call.kind # "none"
KernelOps == {"attention", "paged_attention", "paged_attention_mla"}
PagedOps == {"paged_attention", "paged_attention_mla"}
Events(ops) == {i \in DOMAIN call.trace : call.trace[i].op \in ops}

\* C1: an attention module whose configured head count is not divisible by
\* the process-group size fails construction with ValueError, and every
\* forward call is made on a module whose head count is divisible.
C1_HeadCountDivisible ==
    /\ (attn.status # "none"
          /\ attn.cfg_num_attention_heads % attn.world # 0)
       => (attn.status = "error" /\ attn.error = "ValueError")
    /\ Called => (attn.status = "ready"
                    /\ attn.cfg_num_attention_heads % attn.world = 0)

C1_Witness ==
    /\ attn.status = "error" /\ attn.error = "ValueError"
    /\ attn.cfg_num_attention_heads % attn.world # 0

\* C2: DeepseekV3Config(tie_word_embeddings=True) raises ValueError.
C2_TiedEmbeddingsRejected ==
    (config.status # "none" /\ config.arg_tie)
    => (config.status = "error" /\ config.error = "ValueError")

\* C3: DeepseekV3Config raises ValueError for every ep_size other than 1,
\* and does not raise for ep_size = 1 when tie_word_embeddings is not set.
C3_EpSizeOnlyOne ==
    config.status # "none" =>
        /\ config.ep_size # 1
           => (config.status = "error" /\ config.error = "ValueError")
        /\ (config.ep_size = 1 /\ ~config.arg_tie) => config.status = "ok"

C3_Witness ==
    /\ config.status = "error" /\ config.error = "ValueError"
    /\ config.ep_size # 1

\* C4: a DeepseekV3MLP built with hidden_act other than "silu", directly or
\* as the shared experts of DeepseekV3MoE, raises NotImplementedError having
\* loaded none of its weights and bound no activation; a module that was
\* built uses silu.
C4_OnlySiluActivation ==
    /\ (mlp.status # "none" /\ mlp.hidden_act # "silu")
       => /\ mlp.status = "error" /\ mlp.error = "NotImplementedError"
          /\ mlp.loads = <<>> /\ mlp.act = "none"
    /\ (moe.status # "none" /\ moe.shared_experts # "None"
          /\ moe.hidden_act # "silu")
       => /\ moe.status = "error" /\ moe.error = "NotImplementedError"
          /\ moe.act = "none"
          /\ \A i \in DOMAIN moe.loads :
                moe.loads[i][1] # "mlp.shared_experts"
    /\ mlp.status = "ok" => mlp.act = "silu"
    /\ (moe.status = "ok" /\ moe.shared_experts = "mlp") => moe.act = "silu"

C4_Witness ==
    /\ mlp.status = "error" /\ mlp.hidden_act = "gelu"
    /\ moe.status = "error" /\ moe.shared_experts = "raised"

\* C5: every attention forward call invokes exactly one attention kernel:
\* the dense kernel iff cu_seqlen_prefill is given, a paged kernel iff not.
C5_ExactlyOneKernel ==
    Called =>
        /\ Cardinality(Events(KernelOps)) = 1
        /\ call.prefill <=> Events({"attention"}) # {}
        /\ ~call.prefill <=> Events(PagedOps) # {}

C5_Witness ==
    /\ call.kind = "deepseek_v3" /\ ~call.prefill
    /\ Events({"paged_attention_mla"}) # {}

\* C6: every attention forward call invokes kv_cache.store exactly once,
\* with the slots of the call, and before the attention kernel.
C6_StoreOnceBeforeKernel ==
    Called =>
        /\ Cardinality(Events({"kv_cache.store"})) = 1
        /\ \A i \in Events({"kv_cache.store"}) :
              /\ call.trace[i].slots = call.slots
              /\ \A j \in Events(KernelOps) : i < j

C6_Witness ==
    /\ call.kind = "neox" /\ call.prefill
    /\ Events({"kv_cache.store"}) = {2} /\ Events(KernelOps) = {3}

\* C7: the entry DeepseekV3Attention.forward stores has width
\* kv_lora_rank + qk_rope_head_dim and no value, on prefill and on decode,
\* so no cache slot ever holds a full key or a value.
C7_LatentCacheEntry ==
    attn.kind = "deepseek_v3" =>
        /\ \A i \in Events({"kv_cache.store"}) :
              /\ call.trace[i].key_width
                    = attn.kv_lora_rank + attn.qk_rope_head_dim
              /\ ~call.trace[i].has_value
        /\ \A s \in Slots :
              kv_cache[s].written =>
                  /\ kv_cache[s].key_width
                        = attn.kv_lora_rank + attn.qk_rope_head_dim
                  /\ ~kv_cache[s].has_value

C7_Witness ==
    /\ call.kind = "deepseek_v3" /\ call.prefill
    /\ attn.qk_nope_head_dim # attn.kv_lora_rank
    /\ \E s \in call.slots : kv_cache[s].written

\* C8 (as stated): after kv_cache.store no later step of the same call
\* consumes the contents of the slots just written.
C8_NeverReadsBack ==
    Called =>
        \A i \in Events({"kv_cache.store"}) : \A j \in DOMAIN call.trace :
            j > i => call.trace[j].reads \cap call.trace[i].slots = {}

\* C8 (amended): the module itself never reads the cache; on prefill the
\* kernel works on the key/value tensors it is handed and nothing after the
\* store consumes the written slots; on decode the paged kernel is handed
\* only the cache and consumes every slot written by the call.
C8_ReadBackOnlyByPagedKernel ==
    Called =>
        /\ \A j \in DOMAIN call.trace :
              call.trace[j].op \notin PagedOps => call.trace[j].reads = {}
        /\ \A j \in Events(KernelOps) :
              /\ call.prefill => call.trace[j].kv_source = "tensors"
              /\ ~call.prefill =>
                    /\ call.trace[j].kv_source = "cache"
                    /\ call.slots \subseteq call.trace[j].reads

C8_Witness ==
    /\ call.kind = "neox" /\ ~call.prefill
    /\ \E j \in Events({"paged_attention"}) :
          call.trace[j].reads = call.blocks /\ call.blocks # call.slots

\* C9: DeepseekV3Attention hands the dense kernel and the paged kernel the
\* scale fixed at construction, head_size^-0.5 * mscale^2, and no forward
\* call changes the stored scale.
C9_SameSoftmaxScale ==
    /\ [](attn.kind = "deepseek_v3" /\ attn.status = "ready" =>
            /\ attn.softmax_scale
                  = [head_size |-> attn.qk_nope_head_dim
                                     + attn.qk_rope_head_dim,
                     factor100 |-> attn.mscale * attn.mscale]
            /\ \A j \in Events(KernelOps) :
                  call.trace[j].softmax_scale = attn.softmax_scale)
    /\ [][attn.status = "ready"
            => attn'.softmax_scale = attn.softmax_scale]_vars

C9_Witness ==
    /\ call.kind = "deepseek_v3" /\ ~call.prefill /\ attn.mscale = 12
    /\ \E s \in Slots \ call.slots : kv_cache[s].written

\* C10: on the DeepSeek prefill path head_size is
\* qk_nope_head_dim + qk_rope_head_dim, query, key and value reach the dense
\* kernel with the common width max(head_size, v_head_dim), and no pad
\* amount is negative.
C10_UniformPaddedWidth ==
    (call.kind = "deepseek_v3" /\ call.prefill) =>
        LET hs == attn.qk_nope_head_dim + attn.qk_rope_head_dim
            v == attn.value_head_size
            width == IF hs >= v THEN hs ELSE v
        IN  /\ attn.head_size = hs
            /\ \A j \in Events({"attention"}) :
                  /\ call.trace[j].query_width = width
                  /\ call.trace[j].key_width = width
                  /\ call.trace[j].value_width = width
                  /\ \A k \in 1 .. 3 : call.trace[j].pads[k] >= 0

C10_Witness ==
    /\ call.kind = "deepseek_v3" /\ call.prefill
    /\ attn.value_head_size > attn.head_size
    /\ \E j \in Events({"attention"}) : call.trace[j].pads[1] > 0

\* C11 (as stated): whenever the query/key head width differs from the
\* value head width, head_size equals the padded width the dense kernel
\* is given.
C11_HeadSizeIsPaddedWidth ==
    (call.kind = "deepseek_v3" /\ call.prefill
        /\ attn.head_size # attn.value_head_size) =>
        \A j \in Events({"attention"}) :
            call.trace[j].query_width = attn.head_size

\* C11 (amended): the padded width is the larger of head_size and
\* v_head_dim; it equals head_size exactly when head_size >= v_head_dim and
\* exceeds it (query and key are zero-padded) when v_head_dim is larger.
C11_PaddedWidthIsLargerHead ==
    (call.kind = "deepseek_v3" /\ call.prefill) =>
        \A j \in Events({"attention"}) :
            LET hs == attn.qk_nope_head_dim + attn.qk_rope_head_dim
                v == attn.value_head_size
                padded == call.trace[j].query_width
            IN  /\ hs >= v => (padded = hs /\ call.trace[j].pads[1] = 0)
                /\ hs < v => (padded = v /\ call.trace[j].pads[1] = v - hs
                                /\ call.trace[j].pads[3] = 0)

C11_Witness ==
    /\ call.kind = "deepseek_v3" /\ call.prefill
    /\ attn.head_size > attn.value_head_size
    /\ \E j \in Events({"attention"}) :
          call.trace[j].pads = <<0, 0, attn.head_size - attn.value_head_size>>

\* =====================================================================
\* DeepseekV3Attention on one token with an empty cache: the prefill
\* branch and the decode branch computed on integer tensors.
\* Vectors are sequences; a matrix is a sequence of rows.
\* =====================================================================
MaxVal == 2          \* tensor entries and weight seeds in 0..MaxVal

RECURSIVE SumTo(_, _)
SumTo(f, n) == IF n = 0 THEN 0 ELSE f[n] + SumTo(f, n - 1)

Dot(x, y) == SumTo([i \in 1 .. Len(x) |-> x[i] * y[i]], Len(x))

Zeros(n) == [i \in 1 .. n |-> 0]

\* torch.nn.functional.pad(x, (0, p), value=0) on a vector, p >= 0
PadVec(x, p) == x \o Zeros(p)

\* x[..., :n]
TruncVec(x, n) == SubSeq(x, 1, n)

\* a linear layer y = x @ W.T, W of shape (out, in)
Linear(W, x) == [j \in 1 .. Len(W) |-> Dot(W[j], x)]

\* the loaded weight of kv_b_proj, shape (N * (P + V), L)
KvBProjWeight(d, a, b) ==
    [r \in 1 .. d.N * (d.P + d.V) |->
        [c \in 1 .. d.L |-> 1 + (r - 1) * c + a * r + b * (c - 1)]]

\* the loaded weight of o_proj, shape (hidden, N * V)
OProjWeight(d, a) ==
    [k \in 1 .. 2 |-> [i \in 1 .. d.N * d.V |-> 1 + i * k + a]]

\* kv_b_proj_weight = weight.T viewed as (L, N, P + V), split on the last
\* axis into W_UK (L, N, P) and W_UV (L, N, V)
KvBView(d, W, l, n, j) == W[(n - 1) * (d.P + d.V) + j][l]

\* variant: W_UV is cut from the front of the last axis
W_UV_noOffset(d, W) ==
    [n \in 1 .. d.N |-> [l \in 1 .. d.L |->
        [v \in 1 .. d.V |-> KvBView(d, W, l, n, v)]]]

\* self.W_UV = W_UV.transpose(0, 1): (N, L, V)
W_UV(d, W) ==
    [n \in 1 .. d.N |-> [l \in 1 .. d.L |->
        [v \in 1 .. d.V |-> KvBView(d, W, l, n, d.P + v)]]]

\* self.W_UK_T = W_UK.permute(1, 2, 0): (N, P, L)
W_UK_T(d, W) ==
    [n \in 1 .. d.N |-> [p \in 1 .. d.P |->
        [l \in 1 .. d.L |-> KvBView(d, W, l, n, p)]]]

\* torch.bmm on one batch row: (N, K) x (N, K, M) -> (N, M)
Bmm(x, w, m) ==
    [n \in 1 .. Len(x) |->
        [j \in 1 .. m |->
            SumTo([k \in 1 .. Len(x[n]) |-> x[n][k] * w[n][k][j]],
                  Len(x[n]))]]

\* reshape (N, V) -> (N * V)
Flatten(x, width) ==
    [i \in 1 .. Len(x) * width |->
        x[((i - 1) \div width) + 1][((i - 1) % width) + 1]]

\* dense kernel on a one-token sequence: one score per head and the
\* softmax over it is 1, so each head returns its value row
DenseKernelOneToken(query, key, value) ==
    [scores |-> [n \in 1 .. Len(query) |-> Dot(query[n], key[n])],
     out |-> value]

\* paged MLA kernel on a one-token sequence: every head attends to the one
\* cached latent entry and returns its first kv_lora_rank components
PagedMlaKernelOneToken(query, entry, kv_lora_rank) ==
    [scores |-> [n \in 1 .. Len(query) |-> Dot(query[n], entry)],
     out |-> [n \in 1 .. Len(query) |-> SubSeq(entry, 1, kv_lora_rank)]]

\* DeepseekV3Attention.forward, cu_seqlen_prefill given
\* x: [kv_c_normed, key_pe, q_nope, q_pe] after projection and rotary
PrefillOneToken(d, W, Wo, x) ==
    LET head_size == d.P + d.R
        head_pad_size == HeadPadSize(head_size, d.V)
        kv == Linear(W, x.kv_c_normed)
        key_nope == [n \in 1 .. d.N |->
                        SubSeq(kv, (n - 1) * (d.P + d.V) + 1,
                               (n - 1) * (d.P + d.V) + d.P)]
        value == [n \in 1 .. d.N |->
                     SubSeq(kv, (n - 1) * (d.P + d.V) + d.P + 1,
                            n * (d.P + d.V))]
        query == [n \in 1 .. d.N |-> x.q_nope[n] \o x.q_pe[n]]
        key == [n \in 1 .. d.N |-> key_nope[n] \o x.key_pe]
        qp == [n \in 1 .. d.N |-> PadVec(query[n], head_pad_size - head_size)]
        kp == [n \in 1 .. d.N |-> PadVec(key[n], head_pad_size - head_size)]
        vp == [n \in 1 .. d.N |-> PadVec(value[n], head_pad_size - d.V)]
        res == DenseKernelOneToken(qp, kp, vp)
        attn_output == [n \in 1 .. d.N |-> TruncVec(res.out[n], d.V)]
    IN  [scores |-> res.scores,
         out |-> Linear(Wo, Flatten(attn_output, d.V))]

\* DeepseekV3Attention.forward, cu_seqlen_prefill None
DecodeOneToken(d, W, Wo, x) ==
    LET ql_nope == Bmm(x.q_nope, W_UK_T(d, W), d.L)
        query == [n \in 1 .. d.N |-> ql_nope[n] \o x.q_pe[n]]
        latent_vec_k == x.kv_c_normed \o x.key_pe
        res == PagedMlaKernelOneToken(query, latent_vec_k, d.L)
        up == Bmm(res.out, W_UV(d, W), d.V)
    IN  [scores |-> res.scores,
         out |-> Linear(Wo, Flatten(up, d.V))]

EqDims == [N : {1, 2}, L : {2}, P : {1}, R : {2}, V : {1, 2}]

EqInput(d, c1, c2, z) ==
    [kv_c_normed |-> <<c1, c2>>,
     key_pe |-> <<c2 + 1, 1>>,
     q_nope |-> [n \in 1 .. d.N |-> <<z + n>>],
     q_pe |-> [n \in 1 .. d.N |-> <<n, z + 1>>]]

NoResult == [scores |-> <<>>, out |-> <<>>]

InitEquiv ==
    /\ config = NoConfig /\ mlp = NoModule /\ moe = NoModule
    /\ attn = NoAttn /\ kv_cache = EmptyCache /\ call = NoCall
    /\ ff = Idle /\ fwd = Idle /\ dk = Idle /\ hl = Idle
    /\ gate = Idle /\ rope = Idle /\ env = Idle /\ head = Idle
    /\ \E d \in EqDims, a \in 0 .. MaxVal, b \in 0 .. MaxVal,
          c1 \in 0 .. MaxVal, c2 \in 0 .. MaxVal, z \in 0 .. MaxVal :
          eq = [pc |-> "input", d |-> d,
                W |-> KvBProjWeight(d, a, b), Wo |-> OProjWeight(d, a),
                x |-> EqInput(d, c1, c2, z),
                prefill |-> NoResult, decode |-> NoResult]

RunPrefillOneToken ==
    /\ eq.pc = "input" /\ eq.prefill = NoResult
    /\ eq' = [eq EXCEPT !.prefill = PrefillOneToken(eq.d, eq.W, eq.Wo, eq.x)]
    /\ UNCHANGED <<gate, rope, env, head, config, mlp, moe, attn, kv_cache, call, ff, fwd, dk, hl>>

RunDecodeOneToken ==
    /\ eq.pc = "input" /\ eq.decode = NoResult
    /\ eq' = [eq EXCEPT !.decode = DecodeOneToken(eq.d, eq.W, eq.Wo, eq.x)]
    /\ UNCHANGED <<gate, rope, env, head, config, mlp, moe, attn, kv_cache, call, ff, fwd, dk, hl>>

NextEquiv == RunPrefillOneToken \/ RunDecodeOneToken

SpecEquiv == InitEquiv /\ [][NextEquiv]_vars

\* C12: on a single-token sequence with an empty cache the prefill branch
\* and the decode branch give the kernel the same attention score per head
\* and return the same output row.
C12_PrefillEqualsDecode ==
    (eq.pc = "input" /\ eq.prefill # NoResult /\ eq.decode # NoResult) =>
        /\ eq.prefill.out = eq.decode.out
        /\ eq.prefill.scores = eq.decode.scores

C12_Witness ==
    /\ eq.pc = "input" /\ eq.prefill # NoResult /\ eq.decode # NoResult
    /\ eq.d.N = 2 /\ eq.d.V = 2
    /\ eq.prefill.out[1] # eq.prefill.out[2]
    /\ eq.decode.scores[1] # eq.decode.scores[2]

\* =====================================================================
\* Sharded feed-forward: DeepseekV3MLP.forward, DeepseekV3MoE.forward and
\* FlashNeoXLayer.forward across the ranks of the process group.
\* A tensor is given by its value on every rank (one integer per rank
\* stands for the whole local tensor) and its shape.
\* =====================================================================
Ranks(world) == 1 .. world

\* torch.distributed.all_reduce(t, group): every rank gets the sum
AllReduce(t, world) ==
    LET total == SumTo(t, world) IN [r \in Ranks(world) |-> total]

Add(t, u, world) == [r \in Ranks(world) |-> t[r] + u[r]]

FFEvent(op, reduce) == [op |-> op, reduce |-> reduce]

\* TensorParallelRowLinear.forward(x, reduce): the local product, summed
\* over the ranks when the group has more than one rank and reduce is set
RowLinear(local, world, reduce) ==
    IF world > 1 /\ reduce
    THEN [out |-> AllReduce(local, world),
          trace |-> <<FFEvent("all_reduce", TRUE)>>]
    ELSE [out |-> local, trace |-> <<>>]

\* DeepseekV3MLP.forward(hidden_states, reduce=True)
DeepseekV3MLP_forward(local, world, reduce) ==
    LET down == RowLinear(local, world, reduce)
    IN  [out |-> down.out,
         trace |-> <<FFEvent("down_proj", reduce)>> \o down.trace]

\* variant: the shared experts are called with the default reduce=True
DeepseekV3MoE_forward_sharedReduced(routed, shared, has_shared, world, shape) ==
    LET sh == DeepseekV3MLP_forward(shared, world, TRUE)
        t1 == IF has_shared
              THEN <<FFEvent("shared_experts", TRUE)>> \o sh.trace
              ELSE <<>>
        t2 == <<FFEvent("gate", FALSE), FFEvent("moe_layer", FALSE)>>
        sum == IF has_shared THEN Add(routed, sh.out, world) ELSE routed
        t3 == IF has_shared THEN <<FFEvent("add", FALSE)>> ELSE <<>>
    IN  IF world > 1
        THEN [out |-> AllReduce(sum, world), shape |-> shape,
              trace |-> t1 \o t2 \o t3 \o <<FFEvent("all_reduce", TRUE)>>]
        ELSE [out |-> sum, shape |-> shape, trace |-> t1 \o t2 \o t3]

\* variant: the reduction is issued whatever the group size
DeepseekV3MoE_forward_alwaysReduce(routed, shared, has_shared, world, shape) ==
    LET sh == DeepseekV3MLP_forward(shared, world, FALSE)
        t1 == IF has_shared
              THEN <<FFEvent("shared_experts", FALSE)>> \o sh.trace
              ELSE <<>>
        t2 == <<FFEvent("gate", FALSE), FFEvent("moe_layer", FALSE)>>
        sum == IF has_shared THEN Add(routed, sh.out, world) ELSE routed
        t3 == IF has_shared THEN <<FFEvent("add", FALSE)>> ELSE <<>>
    IN  [out |-> AllReduce(sum, world), shape |-> shape,
         trace |-> t1 \o t2 \o t3 \o <<FFEvent("all_reduce", TRUE)>>]

\* DeepseekV3MoE.forward(x)
\*   routed, shared : the local outputs of moe_layer and of the shared
\*                    experts' down projection on every rank
\*   shape          : x.shape
DeepseekV3MoE_forward(routed, shared, has_shared, world, shape) ==
    LET sh == DeepseekV3MLP_forward(shared, world, FALSE)
        t1 == IF has_shared
              THEN <<FFEvent("shared_experts", FALSE)>> \o sh.trace
              ELSE <<>>
        t2 == <<FFEvent("gate", FALSE), FFEvent("moe_layer", FALSE)>>
        sum == IF has_shared THEN Add(routed, sh.out, world) ELSE routed
        t3 == IF has_shared THEN <<FFEvent("add", FALSE)>> ELSE <<>>
    IN  IF world > 1
        THEN [out |-> AllReduce(sum, world), shape |-> shape,
              trace |-> t1 \o t2 \o t3 \o <<FFEvent("all_reduce", TRUE)>>]
        ELSE [out |-> sum, shape |-> shape, trace |-> t1 \o t2 \o t3]

\* load_row: a bare linear under use_parallel_residual, otherwise a
\* TensorParallelRowLinear
LoadRowForward(local, world, use_parallel_residual) ==
    IF use_parallel_residual
    THEN [out |-> local, trace |-> <<>>]
    ELSE RowLinear(local, world, TRUE)

\* FlashNeoXLayer.forward
\*   attn_local, mlp_local : local outputs of attention.dense and
\*                           mlp.dense_4h_to_h on every rank
\*   hidden                : hidden_states (replicated on every rank)
FlashNeoXLayer_forward(attn_local, mlp_local, hidden, use_parallel_residual, world, shape) ==
    LET a == LoadRowForward(attn_local, world, use_parallel_residual)
        f == LoadRowForward(mlp_local, world, use_parallel_residual)
        ta == <<FFEvent("attention", FALSE)>> \o a.trace
        tf == <<FFEvent("mlp", FALSE)>> \o f.trace
        intermediate == Add(f.out, a.out, world)
    IN  IF use_parallel_residual
        THEN IF world > 1
             THEN [out |-> Add(AllReduce(intermediate, world), hidden, world),
                   shape |-> shape,
                   trace |-> ta \o tf \o <<FFEvent("add", FALSE),
                                           FFEvent("all_reduce", TRUE)>>]
             ELSE [out |-> Add(intermediate, hidden, world), shape |-> shape,
                   trace |-> ta \o tf \o <<FFEvent("add", FALSE)>>]
        ELSE [out |-> f.out, shape |-> shape, trace |-> ta \o tf]

\* local tensors of a call: rank r holds base + step * r
LocalTensor(world, base, step) == [r \in Ranks(world) |-> base + step * r]

Replicated(world, v) == [r \in Ranks(world) |-> v]

FFShapes == {<<1, 2>>, <<2, 2>>}

CallDeepseekV3MLP ==
    /\ \E world \in 1 .. MaxWorld, a \in 0 .. MaxVal, reduce \in BOOLEAN,
          shape \in FFShapes :
          LET local == LocalTensor(world, a, 1)
              res == DeepseekV3MLP_forward(local, world, reduce)
          IN  ff' = [pc |-> "mlp", world |-> world, has_shared |-> FALSE,
                     use_parallel_residual |-> FALSE, reduce |-> reduce,
                     routed |-> local, shared |-> Replicated(world, 0),
                     hidden |-> Replicated(world, 0),
                     x_shape |-> shape, out |-> res.out,
                     out_shape |-> shape, trace |-> res.trace]
    /\ UNCHANGED <<gate, rope, env, head, config, mlp, moe, attn, kv_cache, call, eq, fwd, dk, hl>>

CallDeepseekV3MoE ==
    /\ \E world \in 1 .. MaxWorld, a \in 0 .. MaxVal, b \in 0 .. MaxVal,
          has_shared \in BOOLEAN, shape \in FFShapes :
          LET routed == LocalTensor(world, a, 1)
              shared == LocalTensor(world, b, 2)
              res == DeepseekV3MoE_forward(routed, shared, has_shared, world,
                                           shape)
          IN  ff' = [pc |-> "moe", world |-> world, has_shared |-> has_shared,
                     use_parallel_residual |-> FALSE, reduce |-> FALSE,
                     routed |-> routed,
                     shared |-> IF has_shared THEN shared
                                ELSE Replicated(world, 0),
                     hidden |-> Replicated(world, 0),
                     x_shape |-> shape, out |-> res.out,
                     out_shape |-> res.shape, trace |-> res.trace]
    /\ UNCHANGED <<gate, rope, env, head, config, mlp, moe, attn, kv_cache, call, eq, fwd, dk, hl>>

CallFlashNeoXLayer ==
    /\ \E world \in 1 .. MaxWorld, a \in 0 .. MaxVal, b \in 0 .. MaxVal,
          upr \in BOOLEAN, shape \in FFShapes :
          LET attn_local == LocalTensor(world, a, 1)
              mlp_local == LocalTensor(world, b, 2)
              hidden == Replicated(world, 1)
              res == FlashNeoXLayer_forward(attn_local, mlp_local, hidden,
                                            upr, world, shape)
          IN  ff' = [pc |-> "neox_layer", world |-> world,
                     has_shared |-> FALSE, use_parallel_residual |-> upr,
                     reduce |-> FALSE,
                     routed |-> attn_local, shared |-> mlp_local,
                     hidden |-> hidden,
                     x_shape |-> shape, out |-> res.out,
                     out_shape |-> res.shape, trace |-> res.trace]
    /\ UNCHANGED <<gate, rope, env, head, config, mlp, moe, attn, kv_cache, call, eq, fwd, dk, hl>>

\* bias = None
NoBias == <<>>

load_row_bias_everyRank(bias, rank, checkpoint_bias) ==
    IF bias THEN <<checkpoint_bias>> ELSE NoBias

\* load_row: the bias the linear layer of this rank is built with; rank
\* counts from 0
load_row_bias(bias, rank, checkpoint_bias) ==
    IF bias /\ rank = 0 THEN <<checkpoint_bias>> ELSE NoBias

\* get_linear(weight, bias).forward on every rank: the local product plus
\* the bias the rank holds
LinearLocal(product, biases, world) ==
    [r \in Ranks(world) |->
        product[r] + (IF biases[r] = NoBias THEN 0 ELSE biases[r][1])]

\* A GPT-NeoX layer whose two row-parallel projections (attention.dense
\* and mlp.dense_4h_to_h) were loaded by load_row with bias=True.
CallFlashNeoXLayerLoaded ==
    /\ \E world \in 1 .. MaxWorld, a \in 0 .. MaxVal, b \in 0 .. MaxVal,
          upr \in BOOLEAN, attn_bias \in 1 .. 2, mlp_bias \in 3 .. 4 :
          \E attn_biases \in {[r \in Ranks(world) |-> load_row_bias(TRUE, r - 1, attn_bias)]},
             mlp_biases \in {[r \in Ranks(world) |-> load_row_bias(TRUE, r - 1, mlp_bias)]} :
           \E attn_local \in {LinearLocal(LocalTensor(world, a, 1), attn_biases, world)},
              mlp_local \in {LinearLocal(LocalTensor(world, b, 2), mlp_biases, world)} :
            \E res \in {FlashNeoXLayer_forward(attn_local, mlp_local, Replicated(world, 1), upr, world, <<1, 2>>)} :
              ff' = [pc |-> "neox_loaded", world |-> world,
                     has_shared |-> FALSE, use_parallel_residual |-> upr,
                     reduce |-> FALSE,
                     attn_product |-> LocalTensor(world, a, 1),
                     mlp_product |-> LocalTensor(world, b, 2),
                     attn_bias |-> attn_bias, mlp_bias |-> mlp_bias,
                     attn_biases |-> attn_biases, mlp_biases |-> mlp_biases,
                     routed |-> attn_local, shared |-> mlp_local,
                     attn_out |-> LoadRowForward(attn_local, world, upr).out,
                     mlp_out |-> LoadRowForward(mlp_local, world, upr).out,
                     hidden |-> Replicated(world, 1),
                     x_shape |-> <<1, 2>>, out |-> res.out,
                     out_shape |-> res.shape, trace |-> res.trace]
    /\ UNCHANGED <<gate, rope, env, head, config, mlp, moe, attn, kv_cache, call, eq, fwd, dk, hl>>

NextReduce ==
    \/ CallDeepseekV3MLP
    \/ CallDeepseekV3MoE
    \/ CallFlashNeoXLayer
    \/ CallFlashNeoXLayerLoaded

SpecReduce == Init /\ [][NextReduce]_vars

FFReduces == {i \in DOMAIN ff.trace : ff.trace[i].op = "all_reduce"}

\* C13: DeepseekV3MoE.forward and FlashNeoXLayer.forward issue an
\* all_reduce iff the process group has more than one rank, and with one
\* rank the output is the locally computed one.
C13_ReduceIffSharded ==
    ff.pc \in {"moe", "neox_layer"} =>
        /\ FFReduces # {} <=> ff.world > 1
        /\ ff.world = 1 =>
              ff.out[1] = IF ff.pc = "moe" THEN ff.routed[1] + ff.shared[1]
                          ELSE IF ff.use_parallel_residual
                          THEN ff.routed[1] + ff.shared[1] + ff.hidden[1]
                          ELSE ff.shared[1]

C13_Witness ==
    /\ ff.pc = "neox_layer" /\ ff.world = 1 /\ ff.use_parallel_residual
    /\ FFReduces = {} /\ ff.out[1] > ff.hidden[1]

\* C14: with more than one rank DeepseekV3MoE.forward evaluates the shared
\* experts with reduce=False, adds them to the routed output and reduces
\* the sum once: every rank's routed and shared contribution enters the
\* result exactly once, and the result has the shape of the input.
C14_SingleReductionOfSum ==
    (ff.pc = "moe" /\ ff.world > 1) =>
        /\ Cardinality(FFReduces) = 1
        /\ \A i \in DOMAIN ff.trace :
              /\ ff.trace[i].op = "shared_experts" => ~ff.trace[i].reduce
              /\ ff.trace[i].op = "add" => \A j \in FFReduces : i < j
        /\ ff.has_shared => \E i \in DOMAIN ff.trace : ff.trace[i].op = "add"
        /\ \A r \in Ranks(ff.world) :
              ff.out[r] = SumTo(ff.routed, ff.world)
                            + SumTo(ff.shared, ff.world)
        /\ ff.out_shape = ff.x_shape

C14_Witness ==
    /\ ff.pc = "moe" /\ ff.world > 1 /\ ff.has_shared
    /\ SumTo(ff.shared, ff.world) > 0
    /\ ff.trace[Len(ff.trace)].op = "all_reduce"

\* ---------------------------------------------------------------------
\* Model forward pass: embedding, rotary tables, the layer stack with its
\* per-layer KV cache, the final norm and the language-model head.
\* Tensors are sequences with one integer per token.
\* ---------------------------------------------------------------------

MaxLayers == 2       \* num_hidden_layers in 1..MaxLayers
MaxTok == 2          \* tokens of one batch in 1..MaxTok

Vocab == 1..2
NoTensor == <<>>
ModelKinds == {"deepseek_v3", "neox", "starcoder2"}

TokenSeqs(S) == UNION {[1..n -> S] : n \in 1..MaxTok}

FwdEvent(op, layer, cache, slots, cos_sin, residual, residual_out) ==
    [op |-> op, layer |-> layer, cache |-> cache, slots |-> slots,
     cos_sin |-> cos_sin, residual |-> residual,
     residual_out |-> residual_out]

PlainEvent(op) ==
    FwdEvent(op, -1, -1, NoTensor, NoTensor, NoTensor, NoTensor)

Embedding(input_ids) == [t \in DOMAIN input_ids |-> 10 * input_ids[t]]

GetCosSin(position_ids) ==
    [t \in DOMAIN position_ids |->
        <<2 * position_ids[t], 2 * position_ids[t] + 1>>]

\* FastRMSNorm / FastLayerNorm: adds the residual when there is one and
\* returns the normalised sum together with the sum.
FastNorm(hidden_states, residual) ==
    LET res == IF residual = NoTensor THEN hidden_states
               ELSE [t \in DOMAIN hidden_states |->
                        hidden_states[t] + residual[t]]
    IN  [normed |-> [t \in DOMAIN res |-> (res[t] % 7) + 1],
         residual |-> res]

\* The attention of layer layer_id: stores the new keys and values at
\* slots in the cache it was handed and returns its output.
LayerAttention(layer_id, hidden_states, cos_sin, cache, slots) ==
    [out |-> [t \in DOMAIN hidden_states |->
                 hidden_states[t] + cos_sin[t][1] + layer_id],
     cache |-> Append(cache, [layer |-> layer_id, slots |-> slots])]

LayerMLP(layer_id, hidden_states) ==
    [t \in DOMAIN hidden_states |-> 2 * hidden_states[t] + layer_id]

DeepseekV3Layer_forward(layer_id, hidden_states, residual, cos_sin, cache, slots) ==
    LET n1 == FastNorm(hidden_states, residual)
        at == LayerAttention(layer_id, n1.normed, cos_sin, cache, slots)
        n2 == FastNorm(at.out, n1.residual)
    IN  [hidden |-> LayerMLP(layer_id, n2.normed),
         residual |-> n2.residual, cache |-> at.cache]

Starcoder2Layer_forward(layer_id, hidden_states, residual, cos_sin, cache, slots) ==
    LET n1 == FastNorm(hidden_states, residual)
        at == LayerAttention(layer_id, n1.normed, cos_sin, cache, slots)
        n2 == FastNorm(at.out, n1.residual)
    IN  [hidden |-> LayerMLP(layer_id, n2.normed),
         residual |-> n2.residual, cache |-> at.cache]

FlashNeoXLayer_residual(layer_id, use_parallel_residual, hidden_states, residual, cos_sin, cache, slots) ==
    IF use_parallel_residual
    THEN LET ln1 == FastNorm(hidden_states, NoTensor)
             at == LayerAttention(layer_id, ln1.normed, cos_sin, cache,
                                  slots)
             ln2 == FastNorm(hidden_states, NoTensor)
             mo == LayerMLP(layer_id, ln2.normed)
         IN  [hidden |-> [t \in DOMAIN hidden_states |->
                             mo[t] + at.out[t] + hidden_states[t]],
              residual |-> NoTensor, cache |-> at.cache]
    ELSE LET n1 == FastNorm(hidden_states, residual)
             at == LayerAttention(layer_id, n1.normed, cos_sin, cache,
                                  slots)
             n2 == FastNorm(at.out, n1.residual)
         IN  [hidden |-> LayerMLP(layer_id, n2.normed),
              residual |-> n2.residual, cache |-> at.cache]

LayerForward(kind, use_parallel_residual, layer_id, hidden_states, residual, cos_sin, cache, slots) ==
    IF kind = "deepseek_v3"
    THEN DeepseekV3Layer_forward(layer_id, hidden_states, residual,
                                 cos_sin, cache, slots)
    ELSE IF kind = "starcoder2"
    THEN Starcoder2Layer_forward(layer_id, hidden_states, residual,
                                 cos_sin, cache, slots)
    ELSE FlashNeoXLayer_residual(layer_id, use_parallel_residual,
                                 hidden_states, residual, cos_sin, cache,
                                 slots)

MarkStep_always(lazy_mode) == <<PlainEvent("mark_step")>>

\* if lazy_mode: htorch.core.mark_step()
MarkStep(lazy_mode) ==
    IF lazy_mode THEN <<PlainEvent("mark_step")>> ELSE <<>>

KvCacheIndex_first(i) == 0

\* kv_cache[i] of the loop over enumerate(self.layers)
KvCacheIndex(i) == i

\* One iteration of the loop: s carries hidden_states, residual, the
\* list of caches and the calls made so far.  The layer's result r is
\* bound once, as the tuple assignment of the loop does.
LayerStep(kind, use_parallel_residual, lazy_mode, i, cos_sin, slots, s) ==
    CHOOSE out \in
        {[hidden |-> r.hidden, residual |-> r.residual,
          kv_cache |-> [s.kv_cache EXCEPT ![KvCacheIndex(i) + 1] = r.cache],
          trace |-> s.trace
                      \o <<FwdEvent("layer", i, KvCacheIndex(i), slots,
                                    cos_sin, s.residual, r.residual)>>
                      \o MarkStep(lazy_mode)] :
         r \in {LayerForward(kind, use_parallel_residual, i, s.hidden,
                             s.residual, cos_sin,
                             s.kv_cache[KvCacheIndex(i) + 1], slots)}} : TRUE

\* The loop over enumerate(self.layers) from layer i on.
RECURSIVE RunLayers(_, _, _, _, _, _, _, _)
RunLayers(kind, use_parallel_residual, lazy_mode, i, num_layers, cos_sin, slots, st) ==
    IF i = num_layers THEN st
    ELSE CHOOSE out \in
             {RunLayers(kind, use_parallel_residual, lazy_mode, i + 1,
                        num_layers, cos_sin, slots, s1) :
              s1 \in {LayerStep(kind, use_parallel_residual, lazy_mode, i,
                                cos_sin, slots, s) : s \in {st}}} : TRUE

\* DeepseekV3Model.forward, FlashGPTNeoXModel.forward and
\* Starcoder2Model.forward: the three bodies differ only in the names of
\* the embedding and of the final norm.
Model_forward(kind, use_parallel_residual, lazy_mode, num_layers, input_ids, position_ids, kv_caches, slots, has_meta) ==
    LET t0 == IF has_meta THEN <<PlainEvent("set_block_mapping")>>
              ELSE <<>>
        hidden_states == Embedding(input_ids)
        cos_sin == GetCosSin(position_ids)
        t1 == t0 \o <<PlainEvent("embed")>>
                 \o <<FwdEvent("get_cos_sin", -1, -1, NoTensor, cos_sin,
                               NoTensor, NoTensor)>>
                 \o MarkStep(lazy_mode)
    IN  CHOOSE out \in
            {[hidden |-> FastNorm(st.hidden, st.residual).normed,
              kv_cache |-> st.kv_cache,
              trace |-> st.trace \o <<FwdEvent("norm", -1, -1, NoTensor,
                                               NoTensor, st.residual,
                                               NoTensor)>>] :
             st \in {RunLayers(kind, use_parallel_residual, lazy_mode, 0,
                               num_layers, cos_sin, slots,
                               [hidden |-> hidden_states,
                                residual |-> NoTensor,
                                kv_cache |-> kv_caches,
                                trace |-> t1])}} : TRUE

\* SpeculativeHead applied row by row.
LmHead(hidden_states) ==
    [k \in DOMAIN hidden_states |-> 3 * hidden_states[k] + 1]

NoIndices == [given |-> FALSE, idx |-> <<>>]

SelectRows_all(hidden_states, lm_head_indices) == hidden_states

\* if lm_head_indices is not None:
\*     hidden_states = hidden_states[lm_head_indices]
SelectRows(hidden_states, lm_head_indices) ==
    IF lm_head_indices.given
    THEN [k \in DOMAIN lm_head_indices.idx |->
             hidden_states[lm_head_indices.idx[k] + 1]]
    ELSE hidden_states

ForCausalLM_forward(kind, use_parallel_residual, lazy_mode, num_layers, input_ids, position_ids, kv_caches, slots, has_meta, lm_head_indices) ==
    CHOOSE out \in
        {[hidden |-> mo.hidden, kv_cache |-> mo.kv_cache,
          trace |-> mo.trace,
          logits |-> LmHead(SelectRows(mo.hidden, lm_head_indices))] :
         mo \in {Model_forward(kind, use_parallel_residual, lazy_mode,
                               num_layers, input_ids, position_ids,
                               kv_caches, slots, has_meta)}} : TRUE

IndexChoices(T) ==
    {NoIndices} \cup
    {[given |-> TRUE, idx |-> s] : s \in UNION {[1..n -> 0..(T - 1)] : n \in 1..T}}

CallForCausalLM(kind, use_parallel_residual) ==
    /\ fwd.pc = "idle"
    /\ \E num_layers \in 1..MaxLayers, input_ids \in TokenSeqs(Vocab),
          p0 \in 0..1, s0 \in 0..1, lazy_mode \in BOOLEAN,
          has_meta \in BOOLEAN :
         \E lm_head_indices \in IndexChoices(Len(input_ids)) :
          \E r \in {ForCausalLM_forward(
                       kind, use_parallel_residual, lazy_mode, num_layers,
                       input_ids,
                       [t \in DOMAIN input_ids |-> p0 + t - 1],
                       [i \in 1..num_layers |-> <<>>],
                       [t \in DOMAIN input_ids |-> s0 + t - 1],
                       has_meta, lm_head_indices)} :
              fwd' = [pc |-> "done", kind |-> kind,
                      use_parallel_residual |-> use_parallel_residual,
                      lazy_mode |-> lazy_mode, num_layers |-> num_layers,
                      input_ids |-> input_ids,
                      slots |-> [t \in DOMAIN input_ids |-> s0 + t - 1],
                      cos_sin |-> GetCosSin([t \in DOMAIN input_ids |->
                                                p0 + t - 1]),
                      lm_head_indices |-> lm_head_indices,
                      hidden |-> r.hidden, kv_cache |-> r.kv_cache,
                      trace |-> r.trace, logits |-> r.logits]
    /\ UNCHANGED <<gate, rope, env, head, config, mlp, moe, attn, kv_cache, call, eq, ff, dk, hl>>

CallFlashDeepseekV3ForCausalLM == CallForCausalLM("deepseek_v3", FALSE)

CallFlashGPTNeoXForCausalLM ==
    \E use_parallel_residual \in BOOLEAN :
        CallForCausalLM("neox", use_parallel_residual)

CallFlashStarcoder2ForCausalLM == CallForCausalLM("starcoder2", FALSE)

NextModel ==
    \/ CallFlashDeepseekV3ForCausalLM
    \/ CallFlashGPTNeoXForCausalLM
    \/ CallFlashStarcoder2ForCausalLM

SpecModel == Init /\ [][NextModel]_vars

FwdOps(op) == {i \in DOMAIN fwd.trace : fwd.trace[i].op = op}

\* C15: in lazy mode one forward pass over L layers invokes mark_step once
\* before the first layer and once right after every layer (L+1 in all);
\* outside lazy mode it never invokes it; for all three models.
C15_MarkStepPerLayer ==
    fwd.pc = "done" =>
        IF fwd.lazy_mode
        THEN /\ Cardinality(FwdOps("mark_step")) = fwd.num_layers + 1
             /\ \A i \in FwdOps("layer") :
                   /\ i + 1 \in FwdOps("mark_step")
                   /\ i - 1 \in FwdOps("mark_step")
        ELSE FwdOps("mark_step") = {}

C15_Witness ==
    /\ fwd.pc = "done" /\ fwd.lazy_mode /\ fwd.num_layers = MaxLayers
    /\ fwd.kind = "neox"
    /\ Cardinality(FwdOps("mark_step")) = MaxLayers + 1

\* C16: the layers run in index order, each once; layer i stores only into
\* kv_cache[i]; all layers get the same slots and the cos/sin tables
\* computed once before the first layer; the residual returned by layer i
\* is the one given to layer i+1 (none for layer 0); the final norm runs
\* after the last layer.
C16_LayersInOrder ==
    fwd.pc = "done" =>
        /\ Cardinality(FwdOps("layer")) = fwd.num_layers
        /\ \A i, j \in FwdOps("layer") :
              /\ i < j => fwd.trace[i].layer < fwd.trace[j].layer
              /\ fwd.trace[i].layer \in 0..(fwd.num_layers - 1)
              /\ fwd.trace[i].cache = fwd.trace[i].layer
              /\ fwd.trace[i].slots = fwd.slots
              /\ fwd.trace[i].cos_sin = fwd.cos_sin
              /\ fwd.trace[i].layer = 0 => fwd.trace[i].residual = NoTensor
              /\ fwd.trace[j].layer = fwd.trace[i].layer + 1 =>
                    fwd.trace[j].residual = fwd.trace[i].residual_out
              /\ \A g \in FwdOps("get_cos_sin") : g < i
              /\ \A n \in FwdOps("norm") : i < n
        /\ Cardinality(FwdOps("get_cos_sin")) = 1
        /\ \A g \in FwdOps("get_cos_sin") :
              fwd.trace[g].cos_sin = fwd.cos_sin
        /\ Cardinality(FwdOps("norm")) = 1
        /\ \A c \in DOMAIN fwd.kv_cache :
              fwd.kv_cache[c] = <<[layer |-> c - 1, slots |-> fwd.slots]>>

C16_Witness ==
    /\ fwd.pc = "done" /\ fwd.num_layers = MaxLayers
    /\ fwd.kind = "starcoder2"
    /\ \E i \in FwdOps("layer") :
          fwd.trace[i].layer = 1 /\ fwd.trace[i].residual # NoTensor
    /\ fwd.kv_cache[2] # <<>>

\* C17: the causal-LM wrappers return one logit row per requested
\* position: with lm_head_indices the head is applied to the hidden
\* states at those indices, in the given order; without, to every token.
C17_LogitsForRequestedRows ==
    fwd.pc = "done" =>
        IF fwd.lm_head_indices.given
        THEN /\ Len(fwd.logits) = Len(fwd.lm_head_indices.idx)
             /\ \A k \in DOMAIN fwd.logits :
                   fwd.logits[k] =
                       LmHead(fwd.hidden)[fwd.lm_head_indices.idx[k] + 1]
        ELSE /\ Len(fwd.logits) = Len(fwd.input_ids)
             /\ fwd.logits = LmHead(fwd.hidden)

C17_Witness ==
    /\ fwd.pc = "done" /\ fwd.lm_head_indices.given
    /\ Len(fwd.input_ids) = 2 /\ fwd.lm_head_indices.idx = <<1, 0>>
    /\ fwd.hidden[1] # fwd.hidden[2]
    /\ fwd.logits = <<LmHead(fwd.hidden)[2], LmHead(fwd.hidden)[1]>>

\* ---------------------------------------------------------------------
\* Test harness: the docker_launcher context manager.  The docker daemon
\* is the environment: every call on it may succeed or raise, and the
\* only daemon state that matters is whether a container named
\* container_name exists.
\* ---------------------------------------------------------------------

Statuses == {"created", "running", "exited"}
StartedStatuses == {"running", "created"}

IndexOf(seq, x) == CHOOSE i \in DOMAIN seq : seq[i] = x

\* get the container by name, then call the steps on it in order.  get
\* raises NotFound when there is no container; fail_at names the call
\* that raises another exception ("none": every call succeeds).  The
\* container is gone once remove has succeeded.
StopAndRemove(steps, exists, fail_at) ==
    IF fail_at = "get"
    THEN [calls |-> <<"get">>, exists |-> exists, outcome |-> "error"]
    ELSE IF ~exists
    THEN [calls |-> <<"get">>, exists |-> FALSE, outcome |-> "NotFound"]
    ELSE IF \E i \in DOMAIN steps : steps[i] = fail_at
    THEN [calls |-> <<"get">> \o SubSeq(steps, 1, IndexOf(steps, fail_at)),
          exists |-> TRUE, outcome |-> "error"]
    ELSE [calls |-> <<"get">> \o steps, exists |-> FALSE,
          outcome |-> "removed"]

RemoveExisting_removeFirst(exists, fail_at) ==
    StopAndRemove(<<"remove", "stop", "wait">>, exists, fail_at)

\* Lines 190-202: a container left over under the same name is stopped
\* and removed; NotFound is ignored, any other exception only logged.
RemoveExisting(exists, fail_at) ==
    StopAndRemove(<<"stop", "wait", "remove">>, exists, fail_at)

\* Lines 271-286: the finally block; NotFound is ignored, any other
\* exception only logged as a warning.
FinallyCleanup(exists, fail_at) ==
    StopAndRemove(<<"stop", "wait", "logs", "remove">>, exists, fail_at)

FailPoints == {"none", "get", "stop", "wait", "logs", "remove"}

\* client.containers.run(name=container_name, detach=True): creates and
\* starts the container.  It raises when the name is taken, when the
\* container cannot be created, or when the created container cannot be
\* started.
RunOutcomes(exists) ==
    IF exists THEN {"raises_conflict"}
    ELSE {"ok", "raises_not_created", "raises_not_started"}

\* docker_launcher up to its yield (lines 164-262), and through except
\* and finally when it raises before yielding.
docker_launcher_enter(stale, pre_fail, run, status, logs_raise, final_fail) ==
    LET pre == RemoveExisting(stale, pre_fail)
        after_run == pre.exists \/ run \in {"ok", "raises_not_started"}
        calls1 == pre.calls \o <<"run">>
        bad == status \notin StartedStatuses
        calls2 == IF run = "ok" /\ bad THEN calls1 \o <<"logs">>
                  ELSE calls1
        raises == run # "ok" \/ (bad /\ logs_raise)
        fin == FinallyCleanup(after_run, final_fail)
    IN  IF raises
        THEN [pc |-> "finished", stale |-> stale,
              pre_outcome |-> pre.outcome, exists_at_run |-> pre.exists,
              exists |-> fin.exists, run |-> run,
              status |-> IF run = "ok" THEN status ELSE "none",
              yielded |-> FALSE, raised |-> TRUE,
              cleanup |-> fin.outcome, calls |-> calls2 \o fin.calls]
        ELSE [pc |-> "yielded", stale |-> stale,
              pre_outcome |-> pre.outcome, exists_at_run |-> pre.exists,
              exists |-> after_run, run |-> run,
              status |-> status, yielded |-> TRUE, raised |-> FALSE,
              cleanup |-> "none", calls |-> calls2 \o <<"yield">>]

\* docker_launcher after its yield (lines 264-286): the with-body has
\* finished, normally or by raising; the except clause re-raises, the
\* finally block runs either way.
docker_launcher_exit(d, body_raised, final_fail) ==
    LET fin == FinallyCleanup(d.exists, final_fail)
    IN  [d EXCEPT !.pc = "finished", !.exists = fin.exists,
                  !.raised = body_raised, !.cleanup = fin.outcome,
                  !.calls = d.calls \o fin.calls]

EnterDockerLauncher ==
    /\ dk.pc = "idle"
    /\ \E stale \in BOOLEAN, pre_fail \in FailPoints \ {"logs"},
          status \in Statuses, logs_raise \in BOOLEAN,
          final_fail \in FailPoints :
         \E run \in RunOutcomes(RemoveExisting(stale, pre_fail).exists) :
            dk' = docker_launcher_enter(stale, pre_fail, run, status,
                                        logs_raise, final_fail)
    /\ UNCHANGED <<gate, rope, env, head, config, mlp, moe, attn, kv_cache, call, eq, ff, fwd, hl>>

BodyReturns ==
    /\ dk.pc = "yielded"
    /\ \E final_fail \in FailPoints :
          dk' = docker_launcher_exit(dk, FALSE, final_fail)
    /\ UNCHANGED <<gate, rope, env, head, config, mlp, moe, attn, kv_cache, call, eq, ff, fwd, hl>>

BodyRaises ==
    /\ dk.pc = "yielded"
    /\ \E final_fail \in FailPoints :
          dk' = docker_launcher_exit(dk, TRUE, final_fail)
    /\ UNCHANGED <<gate, rope, env, head, config, mlp, moe, attn, kv_cache, call, eq, ff, fwd, hl>>

NextLauncher ==
    \/ EnterDockerLauncher
    \/ BodyReturns
    \/ BodyRaises

SpecLauncher == Init /\ [][NextLauncher]_vars

\* C18: on every exit path of docker_launcher (the with-body returns, the
\* with-body raises, the start raises) no container named container_name
\* remains once docker_launcher has finished.
C18_NoContainerRemains ==
    dk.pc = "finished" => ~dk.exists

\* C19: when client.containers.run raises, or the status seen after the
\* start is neither "running" nor "created", docker_launcher raises and
\* yields no handle.
C19_StartFailureFatal ==
    (dk.pc # "idle" /\ (dk.run # "ok" \/ dk.status \notin StartedStatuses))
        => (dk.raised /\ ~dk.yielded)

\* ---------------------------------------------------------------------
\* Test harness: LauncherHandle.health.  One step per iteration of the
\* retry loop; the liveness of the launcher and the outcome of the
\* text_generation request are the environment's choice.
\* ---------------------------------------------------------------------

MaxTimeout == 3      \* health(timeout) with timeout in 0..MaxTimeout

ConnErrors ==
    {"ClientConnectorError", "ClientOSError", "ServerDisconnectedError"}
RequestOutcomes == {"ok", "Exception"} \cup ConnErrors

\* What _inner_health looks at: the container's status or a failing
\* lookup for a container handle, the result of poll() for a process.
Observations(kind) ==
    IF kind = "container" THEN Statuses \cup {"get_raises"}
    ELSE {"None", "exit_code"}

ContainerLauncherHandle_inner_health(obs) ==
    IF obs = "get_raises" THEN FALSE ELSE obs \in StartedStatuses

ProcessLauncherHandle_inner_health(obs) == obs = "None"

InnerHealth_alwaysAlive(kind, obs) == TRUE

InnerHealth(kind, obs) ==
    IF kind = "container" THEN ContainerLauncherHandle_inner_health(obs)
    ELSE ProcessLauncherHandle_inner_health(obs)

Retryable_any(req) == req # "ok"

\* except (ClientConnectorError, ClientOSError, ServerDisconnectedError)
Retryable(req) == req \in ConnErrors

LastAttempt_never(attempt, timeout) == attempt = timeout

\* if attempt == timeout - 1
LastAttempt(attempt, timeout) == attempt = timeout - 1

\* Entry of health: assert timeout > 0, then the loop starts at attempt 0.
LauncherHandle_health_enter(kind, timeout) ==
    [pc |-> IF timeout > 0 THEN "loop" ELSE "raised",
     kind |-> kind, timeout |-> timeout, attempt |-> 0,
     error |-> IF timeout > 0 THEN "none" ELSE "AssertionError",
     requests |-> <<>>, checks |-> <<>>, sleeps |-> 0, log |-> <<>>]

\* One iteration of `for attempt in range(timeout)`, and the end of the
\* function when the range is exhausted.
LauncherHandle_health_attempt(h, obs, req) ==
    LET checked == [h EXCEPT !.checks = Append(@, obs),
                             !.log = Append(@, <<"check", obs>>)]
        asked == [checked EXCEPT !.requests = Append(@, req),
                                 !.log = Append(@, <<"request", req>>)]
    IN  IF ~InnerHealth(h.kind, obs)
        THEN [checked EXCEPT !.pc = "raised", !.error = "Launcher crashed"]
        ELSE IF req = "ok"
        THEN [asked EXCEPT !.pc = "returned"]
        ELSE IF Retryable(req)
        THEN IF LastAttempt(h.attempt, h.timeout)
             THEN [asked EXCEPT !.pc = "raised",
                                !.error = "Health check failed"]
             ELSE [asked EXCEPT !.sleeps = @ + 1, !.attempt = @ + 1,
                                !.log = Append(@, <<"sleep", "1">>),
                                !.pc = IF h.attempt + 1 < h.timeout
                                       THEN "loop" ELSE "returned"]
        ELSE [asked EXCEPT !.pc = "raised", !.error = req]

CallHealth ==
    /\ hl.pc = "idle"
    /\ \E kind \in {"container", "process"}, timeout \in 0..MaxTimeout :
          hl' = LauncherHandle_health_enter(kind, timeout)
    /\ UNCHANGED <<gate, rope, env, head, config, mlp, moe, attn, kv_cache, call, eq, ff, fwd, dk>>

HealthAttempt ==
    /\ hl.pc = "loop"
    /\ \E obs \in Observations(hl.kind), req \in RequestOutcomes :
          hl' = LauncherHandle_health_attempt(hl, obs, req)
    /\ UNCHANGED <<gate, rope, env, head, config, mlp, moe, attn, kv_cache, call, eq, ff, fwd, dk>>

NextHealth ==
    \/ CallHealth
    \/ HealthAttempt

SpecHealth == Init /\ [][NextHealth]_vars

\* C20: health(timeout) returns normally only if a text_generation
\* request of that call completed without raising; every other outcome
\* raises, whatever the timeout > 0, the liveness results and the request
\* outcomes.
C20_ReturnsOnlyAfterSuccess ==
    (hl.pc = "returned" /\ hl.timeout > 0) =>
        /\ hl.requests # <<>>
        /\ hl.requests[Len(hl.requests)] = "ok"
        /\ hl.error = "none"

C20_Witness ==
    /\ hl.pc = "raised" /\ hl.timeout = MaxTimeout
    /\ Len(hl.requests) = MaxTimeout
    /\ hl.error = "Health check failed"

\* Every liveness check and every request completes, by returning or by
\* raising, so an attempt that can be made is made.
SpecHealthFair == SpecHealth /\ WF_vars(HealthAttempt)

HealthDone == hl.pc \in {"returned", "raised"}

LogOps(op) == {j \in DOMAIN hl.log : hl.log[j][1] = op}

\* C21: health(timeout) terminates; it makes at most timeout attempts,
\* each one liveness check followed by at most one request, and a
\* connection error on attempt timeout-1 raises RuntimeError instead of
\* retrying.
C21_BoundedAttempts ==
    /\ [](hl.pc # "idle" =>
            /\ Cardinality(LogOps("check")) <= Max(hl.timeout, 0)
            /\ Len(hl.requests) <= Len(hl.checks)
            /\ Len(hl.checks) <= Len(hl.requests) + 1
            /\ \A j \in LogOps("request") : hl.log[j - 1][1] = "check"
            /\ (/\ Len(hl.requests) = hl.timeout /\ hl.timeout > 0
                /\ hl.requests[hl.timeout] \in ConnErrors)
                   => (hl.pc = "raised" /\ hl.error = "Health check failed"))
    /\ (hl.pc = "loop" ~> HealthDone)

C21_Witness ==
    /\ hl.pc = "raised" /\ hl.error = "Health check failed"
    /\ hl.timeout = 2 /\ Len(hl.checks) = 2 /\ hl.sleeps = 1
    /\ hl.kind = "process"

\* C22: in every attempt the liveness check precedes the request; once a
\* check reports the launcher dead, health raises
\* RuntimeError("Launcher crashed") and sends no further request.
C22_LivenessBeforeRequest ==
    LET alive(obs) == IF hl.kind = "container"
                      THEN obs \in {"running", "created"}
                      ELSE obs = "None"
    IN  hl.pc # "idle" =>
            /\ \A j \in LogOps("request") :
                  /\ j > 1 /\ hl.log[j - 1][1] = "check"
                  /\ alive(hl.log[j - 1][2])
            /\ \A j \in LogOps("check") :
                  ~alive(hl.log[j][2]) =>
                      /\ j = Len(hl.log)
                      /\ hl.pc = "raised" /\ hl.error = "Launcher crashed"

C22_Witness ==
    /\ hl.pc = "raised" /\ hl.error = "Launcher crashed"
    /\ hl.kind = "container" /\ Len(hl.checks) = 2
    /\ hl.checks[2] = "get_raises" /\ Len(hl.requests) = 1

\* C26: only connection errors are retried: any other exception of the
\* request is re-raised unchanged at once, and a connection error on an
\* attempt that is not the last is followed by exactly one more attempt.
C26_RetryOnlyConnectionErrors ==
    hl.pc # "idle" =>
        \A j \in LogOps("request") :
            LET req == hl.log[j][2]
                n == Cardinality({k \in LogOps("request") : k <= j})
            IN  /\ (req \notin ConnErrors /\ req # "ok") =>
                      /\ j = Len(hl.log)
                      /\ hl.pc = "raised" /\ hl.error = req
                /\ (req \in ConnErrors /\ n < hl.timeout) =>
                      /\ j < Len(hl.log) /\ hl.log[j + 1][1] = "sleep"
                      /\ IF j + 1 = Len(hl.log)
                         THEN hl.pc = "loop" /\ hl.attempt = n
                         ELSE hl.log[j + 2][1] = "check"

C26_Witness ==
    /\ hl.pc = "raised" /\ hl.error = "Exception"
    /\ Len(hl.requests) = 2 /\ hl.requests[1] = "ClientOSError"
    /\ hl.sleeps = 1

\* ---------------------------------------------------------------------
\* DeepseekV3MoE.__init__: the score-correction bias of the router gate.
\* The checkpoint holds the learned vector gate.e_score_correction_bias.
\* ---------------------------------------------------------------------

MaxExperts == 3      \* n_routed_experts in 1..MaxExperts

TopkMethods == {"gready", "group_limited_greedy", "noaux_tc"}

\* torch.zeros(n)
TorchZeros(n) == [i \in 1..n |-> 0]

\* Lines 476-497: FastLinear.load(..., bias=False) reads the gate weight
\* only; the bias handed to the routed-expert layer is the attribute set
\* from topk_method.  checkpoint_bias is what the weights hold.
DeepseekV3MoE_init_gate(topk_method, n_routed_experts, checkpoint_bias) ==
    LET e_score_correction_bias ==
            IF topk_method = "noaux_tc" THEN TorchZeros(n_routed_experts)
            ELSE NoTensor
    IN  [pc |-> "built", topk_method |-> topk_method,
         n_routed_experts |-> n_routed_experts,
         checkpoint_bias |-> checkpoint_bias,
         e_score_correction_bias |-> e_score_correction_bias,
         moe_layer_bias |-> e_score_correction_bias]

NewDeepseekV3MoEGate ==
    /\ gate.pc = "idle"
    /\ \E topk_method \in TopkMethods, n \in 1..MaxExperts :
         \E checkpoint_bias \in [1..n -> 0..MaxVal] :
            gate' = DeepseekV3MoE_init_gate(topk_method, n, checkpoint_bias)
    /\ UNCHANGED <<rope, env, head, config, mlp, moe, attn, kv_cache, call, eq, ff, fwd, dk, hl>>

NextGate ==
    \/ NewDeepseekV3MoEGate

SpecGate == Init /\ [][NextGate]_vars

\* C23: the routed-expert layer gets a bias-correction vector of length
\* n_routed_experts iff topk_method is "noaux_tc", None otherwise, and the
\* vector is the learned correction held by the loaded weights.
C23_LearnedBiasHandedOver ==
    gate.pc = "built" =>
        IF gate.topk_method = "noaux_tc"
        THEN /\ Len(gate.moe_layer_bias) = gate.n_routed_experts
             /\ gate.moe_layer_bias = gate.checkpoint_bias
        ELSE gate.moe_layer_bias = NoTensor

\* ---------------------------------------------------------------------
\* DeepseekV3Attention.forward: reordering of the rotary subspaces before
\* the rotation.  One head of one token; a vector is a sequence.
\* ---------------------------------------------------------------------

MaxRot == 2          \* qk_rope_head_dim = 2 * r with r in 1..MaxRot

\* x.view(..., head_dim // 2, 2): row i holds the pair (x[2i], x[2i+1])
ViewPairs(x) ==
    [i \in 1..(Len(x) \div 2) |-> <<x[2 * i - 1], x[2 * i]>>]

\* .transpose(2, 3)
Transpose(mat) ==
    [p \in 1..2 |-> [i \in 1..Len(mat) |-> mat[i][p]]]

\* .reshape(..., head_dim): the rows one after the other
ReshapeFlat(mat) == mat[1] \o mat[2]

ReorderPairs_none(x) == x

\* Lines 335-339 and 341-345
ReorderPairs(x) == ReshapeFlat(Transpose(ViewPairs(x)))

\* rotary_emb(query, key, cos, sin), in place on split halves:
\* x1' = x1 * cos - x2 * sin, x2' = x2 * cos + x1 * sin
RotateHalves(x, cos, sin) ==
    LET h == Len(x) \div 2
    IN  [k \in 1..Len(x) |->
            IF k <= h THEN x[k] * cos - x[k + h] * sin
            ELSE x[k] * cos + x[k - h] * sin]

\* The rotary part of the forward pass.  query is the projected query
\* (qk_nope_head_dim columns, then the rotary ones); on the decode path
\* the two parts come from _q_proj_and_k_up_proj and query itself is not
\* rebuilt.
DeepseekV3Attention_rotary(prefill, qk_nope_head_dim, query, key_pe, cos, sin) ==
    LET query_pe == SubSeq(query, qk_nope_head_dim + 1, Len(query))
        q_re == ReorderPairs(query_pe)
        k_re == ReorderPairs(key_pe)
        q_rot == RotateHalves(q_re, cos, sin)
        k_rot == RotateHalves(k_re, cos, sin)
    IN  [pc |-> "done", prefill |-> prefill,
         qk_nope_head_dim |-> qk_nope_head_dim,
         query_in |-> query, key_pe_in |-> key_pe,
         cos |-> cos, sin |-> sin,
         query_pe |-> q_rot, key_pe |-> k_rot,
         query |-> IF prefill
                   THEN SubSeq(query, 1, qk_nope_head_dim) \o q_rot
                   ELSE NoTensor]

ForwardRotary ==
    /\ rope.pc = "idle"
    /\ \E prefill \in BOOLEAN, r \in 1..MaxRot, nope \in 1..MaxDim,
          q0 \in 0..MaxVal, k0 \in 0..MaxVal, cos \in 0..1, sin \in 0..1 :
          rope' = DeepseekV3Attention_rotary(
                      prefill, nope,
                      [k \in 1..(nope + 2 * r) |-> 10 * q0 + k],
                      [k \in 1..(2 * r) |-> 100 + 10 * k0 + k], cos, sin)
    /\ UNCHANGED <<gate, env, head, config, mlp, moe, attn, kv_cache, call, eq, ff, fwd, dk, hl>>

NextRotary ==
    \/ ForwardRotary

SpecRotary == Init /\ [][NextRotary]_vars

\* C24: before the rotation each rotary vector of even width d goes from
\* interleaved pairs to split halves (index 2i to i, index 2i+1 to
\* d/2 + i), a bijection on positions applied alike to query and key; on
\* the prefill path the rotated query part is written back into the
\* columns from qk_nope_head_dim on.
C24_InterleavedToSplitHalves ==
    rope.pc = "done" =>
        LET d == Len(rope.key_pe_in)
            n == rope.qk_nope_head_dim
            \* 0-based destination i holds 0-based source src[i]
            src == [i \in 0..(d - 1) |->
                        IF i < d \div 2 THEN 2 * i
                        ELSE 2 * (i - d \div 2) + 1]
            q_re == [k \in 1..d |-> rope.query_in[n + src[k - 1] + 1]]
            k_re == [k \in 1..d |-> rope.key_pe_in[src[k - 1] + 1]]
        IN  /\ {src[i] : i \in 0..(d - 1)} = 0..(d - 1)
            /\ rope.query_pe = RotateHalves(q_re, rope.cos, rope.sin)
            /\ rope.key_pe = RotateHalves(k_re, rope.cos, rope.sin)
            /\ rope.prefill =>
                  /\ Len(rope.query) = n + d
                  /\ SubSeq(rope.query, 1, n) = SubSeq(rope.query_in, 1, n)
                  /\ SubSeq(rope.query, n + 1, n + d) = rope.query_pe

C24_Witness ==
    /\ rope.pc = "done" /\ rope.prefill
    /\ Len(rope.key_pe_in) = 4 /\ rope.cos = 1 /\ rope.sin = 0
    /\ rope.key_pe[2] = rope.key_pe_in[3]
    /\ rope.key_pe[3] = rope.key_pe_in[2]
    /\ rope.query[rope.qk_nope_head_dim + 3]
          = rope.query_in[rope.qk_nope_head_dim + 2]

\* C25: a row-parallel projection loaded by load_row with bias=True holds
\* its bias on rank 0 only, so the sum over the ranks contains the bias
\* once for any world size; with use_parallel_residual the projections do
\* not reduce and the layer issues exactly one all_reduce, on
\* mlp_output + attn_output, when there is more than one rank.
C25_BiasOnceAcrossRanks ==
    ff.pc = "neox_loaded" =>
        LET attn_total == SumTo(ff.attn_product, ff.world) + ff.attn_bias
            mlp_total == SumTo(ff.mlp_product, ff.world) + ff.mlp_bias
        IN  /\ \A r \in Ranks(ff.world) :
                  /\ ff.attn_biases[r] =
                        IF r = 1 THEN <<ff.attn_bias>> ELSE NoBias
                  /\ ff.mlp_biases[r] =
                        IF r = 1 THEN <<ff.mlp_bias>> ELSE NoBias
            /\ IF ff.use_parallel_residual
               THEN /\ ff.attn_out = ff.routed /\ ff.mlp_out = ff.shared
                    /\ Cardinality(FFReduces)
                          = (IF ff.world > 1 THEN 1 ELSE 0)
                    /\ \A i \in FFReduces :
                          i > 1 /\ ff.trace[i - 1].op = "add"
                    /\ \A r \in Ranks(ff.world) :
                          ff.out[r] = attn_total + mlp_total + ff.hidden[r]
               ELSE \A r \in Ranks(ff.world) :
                          /\ ff.attn_out[r] = attn_total
                          /\ ff.mlp_out[r] = mlp_total

C25_Witness ==
    /\ ff.pc = "neox_loaded" /\ ff.world = MaxWorld
    /\ ff.use_parallel_residual
    /\ ff.mlp_biases[MaxWorld] = NoBias
    /\ Cardinality(FFReduces) = 1

\* The docker calls made before client.containers.run
CallsBeforeRun == SubSeq(dk.calls, 1, IndexOf(dk.calls, "run") - 1)

C28_KvHeadMappingBuilt ==
    (/\ attn.status # "none"
     /\ attn.kind \in {"deepseek_v3", "starcoder2"}
     /\ attn.cfg_num_attention_heads % attn.world = 0) =>
        /\ attn.status = "ready"
        /\ Len(attn.kv_head_mapping) = attn.num_heads
        /\ \A h \in 0 .. (attn.num_heads - 1) :
              /\ attn.kv_head_mapping[h + 1] = h \div attn.num_groups
              /\ attn.kv_head_mapping[h + 1] \in
                    0 .. ((attn.cfg_num_key_value_heads \div attn.world) - 1)

\* ---------------------------------------------------------------------
\* Test harness: the configuration objects docker_launcher touches.
\* Objects live in a heap of named cells so that a copy and an alias
\* differ; a dict is a function from its keys, a list a sequence.
\* ---------------------------------------------------------------------

MaxLaunches == 2     \* docker_launcher calls in one test module

\* BASE_ENV (lines 44-48) and HABANA_RUN_ARGS (lines 51-55) as loaded
BaseEnv0 ==
    [k \in {"HF_HUB_ENABLE_HF_TRANSFER", "LOG_LEVEL", "HF_TOKEN"} |->
        IF k = "HF_HUB_ENABLE_HF_TRANSFER" THEN "1"
        ELSE IF k = "LOG_LEVEL" THEN "info" ELSE "token"]

HabanaRunArgs0 ==
    [k \in {"runtime", "ipc_mode", "cap_add"} |->
        IF k = "runtime" THEN "habana"
        ELSE IF k = "ipc_mode" THEN "host" ELSE "sys_nice"]

EmptyDict == [k \in {} |-> "none"]

\* d[k] = v
SetItem(d, k, v) ==
    [x \in DOMAIN d \cup {k} |-> IF x = k THEN v ELSE d[x]]

\* d.update(e)
DictUpdate(d, e) ==
    [x \in DOMAIN d \cup DOMAIN e |-> IF x \in DOMAIN e THEN e[x] ELSE d[x]]

CopyObject_alias(heap, src, dst) == [ref |-> src, heap |-> heap]

\* src.copy(): a new object dst with the contents of src
CopyObject(heap, src, dst) ==
    [ref |-> dst, heap |-> [heap EXCEPT ![dst] = heap[src]]]

\* Lines 203-215 and the arguments of client.containers.run (lines
\* 231-240).  heap holds BASE_ENV, HABANA_RUN_ARGS and the caller's
\* tgi_args and env_config; has_args / has_config tell whether the caller
\* passed them or None.
docker_launcher_config(heap, model_id, has_args, has_config) ==
    LET a == IF has_args THEN CopyObject(heap, "tgi_args", "args")
             ELSE [ref |-> "args", heap |-> [heap EXCEPT !["args"] = <<>>]]
        e == CopyObject(a.heap, "BASE_ENV", "env")
        h1 == [e.heap EXCEPT ![e.ref] = SetItem(@, "MODEL_ID", model_id)]
        c == CopyObject(h1, "env_config", "env_config_copy")
        h2 == IF has_config
              THEN [c.heap EXCEPT ![e.ref] = DictUpdate(@, c.heap[c.ref])]
              ELSE h1
    IN  [heap |-> h2, command |-> h2[a.ref], environment |-> h2[e.ref],
         run_kwargs |-> h2["HABANA_RUN_ARGS"]]

ConfigKeys == {"LOG_LEVEL", "MODEL_ID", "EXTRA"}

Heap0 ==
    [c \in {"BASE_ENV", "HABANA_RUN_ARGS", "tgi_args", "env_config", "args",
            "env", "env_config_copy"} |->
        IF c = "BASE_ENV" THEN BaseEnv0
        ELSE IF c = "HABANA_RUN_ARGS" THEN HabanaRunArgs0
        ELSE EmptyDict]

LoadServiceModule ==
    /\ env.pc = "idle"
    /\ env' = [pc |-> "loaded", launches |-> 0, heap |-> Heap0,
               model_id |-> "none", has_args |-> FALSE,
               has_config |-> FALSE, tgi_args |-> <<>>,
               env_config |-> EmptyDict, command |-> <<>>,
               environment |-> EmptyDict, run_kwargs |-> EmptyDict]
    /\ UNCHANGED <<gate, rope, head, config, mlp, moe, attn, kv_cache, call, eq, ff, fwd, dk, hl>>

LaunchWithConfig ==
    /\ env.pc # "idle" /\ env.launches < MaxLaunches
    /\ \E model_id \in {"m1", "m2"}, has_args \in BOOLEAN,
          has_config \in BOOLEAN, keys \in SUBSET ConfigKeys,
          tgi_args \in {<<>>, <<"--max-input-tokens">>} :
         /\ ~has_args => tgi_args = <<>>
         /\ ~has_config => keys = {}
         /\ \E h0 \in {[env.heap EXCEPT !["tgi_args"] = tgi_args,
                                       !["env_config"] = [k \in keys |-> "cfg"]]} :
             \E r \in {docker_launcher_config(h0, model_id, has_args, has_config)} :
                env' = [pc |-> "launched", launches |-> env.launches + 1,
                        heap |-> r.heap, model_id |-> model_id,
                        has_args |-> has_args, has_config |-> has_config,
                        tgi_args |-> tgi_args,
                        env_config |-> [k \in keys |-> "cfg"],
                        command |-> r.command,
                        environment |-> r.environment,
                        run_kwargs |-> r.run_kwargs]
    /\ UNCHANGED <<gate, rope, head, config, mlp, moe, attn, kv_cache, call, eq, ff, fwd, dk, hl>>

NextEnv ==
    \/ LoadServiceModule
    \/ LaunchWithConfig

SpecEnv == Init /\ [][NextEnv]_vars

\* C29: after any sequence of launches BASE_ENV and HABANA_RUN_ARGS are
\* as loaded and the caller's tgi_args and env_config are as passed;
\* MODEL_ID and the env_config entries go into a per-launch copy, the
\* env_config entries winning over BASE_ENV and MODEL_ID.
C29_ConfigurationNotMutated ==
    env.pc = "launched" =>
        /\ env.heap["BASE_ENV"] = BaseEnv0
        /\ env.heap["HABANA_RUN_ARGS"] = HabanaRunArgs0
        /\ env.heap["tgi_args"] = env.tgi_args
        /\ env.heap["env_config"] = env.env_config
        /\ env.command = env.tgi_args
        /\ DOMAIN env.environment
              = DOMAIN BaseEnv0 \cup {"MODEL_ID"} \cup DOMAIN env.env_config
        /\ \A k \in DOMAIN env.environment :
              env.environment[k] =
                  IF k \in DOMAIN env.env_config THEN env.env_config[k]
                  ELSE IF k = "MODEL_ID" THEN env.model_id
                  ELSE BaseEnv0[k]

C29_Witness ==
    /\ env.pc = "launched" /\ env.launches = 2 /\ env.has_config
    /\ DOMAIN env.env_config = {"LOG_LEVEL", "MODEL_ID"}
    /\ env.environment["MODEL_ID"] = "cfg"
    /\ env.environment["LOG_LEVEL"] = "cfg"
    /\ env.heap["BASE_ENV"]["LOG_LEVEL"] = "info"

\* ---------------------------------------------------------------------
\* FlashStarcoder2ForCausalLM.__init__: loading of the output head.
\* A weight prefix is the sequence of its dot-separated parts.
\* ---------------------------------------------------------------------

MaxWindow == 2       \* config.sliding_window in 1..MaxWindow, or None (0)

\* exceptions a load may raise; the first three are RuntimeError or one
\* of its subclasses
Exceptions ==
    {"RuntimeError", "NotImplementedError", "RecursionError", "KeyError",
     "ValueError", "OSError"}

LoadOutcomes == {"ok"} \cup Exceptions

Prefixes == {<<>>, <<"language_model">>, <<"text_model">>}

IsRuntimeError_any(exc) == exc \in Exceptions

\* except RuntimeError
IsRuntimeError(exc) ==
    exc \in {"RuntimeError", "NotImplementedError", "RecursionError"}

\* Lines 558-585.  model, first and second are the outcomes of building
\* Starcoder2Model and of the two SpeculativeHead.load calls.
FlashStarcoder2ForCausalLM_init(prefix_arg, sliding_window, model, first, second) ==
    LET prefix == IF prefix_arg = <<>> THEN <<"model">>
                  ELSE prefix_arg \o <<"model">>
        base == [pc |-> "raised", prefix_arg |-> prefix_arg,
                 prefix |-> prefix, model |-> model, first |-> first,
                 second |-> "none", loads |-> <<>>, lm_head |-> <<>>,
                 max_past |-> 0, error |-> model]
        fallback == prefix \o <<"embed_tokens">>
    IN  IF model # "ok" THEN base
        ELSE IF first = "ok"
        THEN [base EXCEPT !.pc = "built", !.error = "none",
                          !.loads = << <<"lm_head">> >>,
                          !.lm_head = <<"lm_head">>,
                          !.max_past = sliding_window]
        ELSE IF ~IsRuntimeError(first)
        THEN [base EXCEPT !.error = first, !.loads = << <<"lm_head">> >>]
        ELSE IF second = "ok"
        THEN [base EXCEPT !.pc = "built", !.error = "none",
                          !.second = second,
                          !.loads = << <<"lm_head">>, fallback >>,
                          !.lm_head = fallback,
                          !.max_past = sliding_window]
        ELSE [base EXCEPT !.error = second, !.second = second,
                          !.loads = << <<"lm_head">>, fallback >>]

NewFlashStarcoder2ForCausalLM ==
    /\ head.pc = "idle"
    /\ \E prefix_arg \in Prefixes, sliding_window \in 0..MaxWindow,
          model \in LoadOutcomes, first \in LoadOutcomes,
          second \in LoadOutcomes :
          head' = FlashStarcoder2ForCausalLM_init(prefix_arg, sliding_window,
                                                  model, first, second)
    /\ UNCHANGED <<gate, rope, env, config, mlp, moe, attn, kv_cache, call, eq, ff, fwd, dk, hl>>

NextHead ==
    \/ NewFlashStarcoder2ForCausalLM

SpecHead == Init /\ [][NextHead]_vars

\* C30: when the load of the head under "lm_head" raises RuntimeError the
\* head is loaded exactly once more, from "<prefix>.embed_tokens", and
\* construction goes on; an exception of another type from the first
\* load, and any exception from the second, reaches the caller.
C30_HeadFallbackOnce ==
    (head.pc # "idle" /\ head.model = "ok") =>
        LET embed == head.prefix \o <<"embed_tokens">>
        IN  IF head.first = "ok"
            THEN /\ head.pc = "built" /\ head.loads = << <<"lm_head">> >>
                 /\ head.lm_head = <<"lm_head">>
            ELSE IF head.first \in {"RuntimeError", "NotImplementedError",
                                    "RecursionError"}
            THEN /\ head.loads = << <<"lm_head">>, embed >>
                 /\ head.second # "none"
                 /\ IF head.second = "ok"
                    THEN head.pc = "built" /\ head.lm_head = embed
                    ELSE head.pc = "raised" /\ head.error = head.second
            ELSE /\ head.pc = "raised" /\ head.error = head.first
                 /\ head.loads = << <<"lm_head">> >>

C30_Witness ==
    /\ head.pc = "built" /\ head.first = "RuntimeError"
    /\ head.prefix_arg = <<"text_model">>
    /\ head.lm_head = <<"text_model", "model", "embed_tokens">>
    /\ Len(head.loads) = 2

====
